---- MODULE Spec2Model ----
(***************************************************************************)
(* A model of nguyengg/golambda's DynamoDB layer:                          *)
(*   - ddb/mapper: Mapper.Put / Mapper.Update with optimistic locking,     *)
(*     run by concurrent writers against one item of the store;            *)
(*   - ddb/opaquetoken: the pagination token codec and its AES transformer;*)
(*   - ddb: the BatchLoad / BatchSave loops;                               *)
(*   - ddb/mapper: New on a tagged record type, and the request that one   *)
(*     call of Put, Update, Delete or Get composes and dispatches.         *)
(*   - queue: Queue with a producer, consumers and Close;                  *)
(*   - ddb: Wrapper.Save and Wrapper.Update on a Versioned item;           *)
(*   - ddb/expr: the condition combinator And.                             *)
(* Strings are sequences of one-character strings, numbers sent to the     *)
(* store are decimal strings as the code formats them.                     *)
(***************************************************************************)
EXTENDS Integers, Sequences, FiniteSets, TLC

VARIABLES
    versionKind,   \* mapper: Go kind of the field tagged "version" of T
    keyFromTags,   \* mapper: TRUE iff T does not implement HasKey
    stored,        \* mapper: the item stored under the key (<<>> if none)
    w,             \* mapper: per writer: pc, op, record, request, result
    tok,           \* token codec: tokenizer, key, result of Encode and of Decode
    batch,         \* batch engine: arguments and loop state of BatchLoad / BatchSave
    build,         \* mapper construction: the record type T and the result of New
    call,          \* one call of Put, Update, Delete or Get: options, request, trace
    queue,         \* queue.Queue: el, closed, and each goroutine's position
    wrap,          \* ddb.Wrapper: the item and the request of one Save / Update
    expr           \* expressions: the conditions handed to And and its results

mapperVars == <<versionKind, keyFromTags, stored, w>>

vars == <<versionKind, keyFromTags, stored, w, tok, batch, build, call, queue, wrap, expr>>

----------------------------------------------------------------------------
(* Values of the variables of a component that a specification leaves out *)

TokIdle == [transformer |-> "none"]

BatchIdle == [op |-> "none"]

BuildIdle == [pc |-> "none"]

CallIdle == [op |-> "none"]

QueueIdle == [pc |-> "none"]

WrapIdle == [pc |-> "none"]

ExprIdle == [pc |-> "none"]

----------------------------------------------------------------------------
(* Bounds *)

\* highest stored version for which writers still start a new round
MaxVersion == 3

Writers == {1, 2}

----------------------------------------------------------------------------
(* Decimal formatting, as strconv.FormatInt / FormatFloat / the encoder do *)

DigitChars == <<"0", "1", "2", "3", "4", "5", "6", "7", "8", "9">>

RECURSIVE FormatNat(_)
FormatNat(n) ==
    IF n < 10 THEN <<DigitChars[n + 1]>>
    ELSE Append(FormatNat(n \div 10), DigitChars[(n % 10) + 1])

\* strconv.FormatInt(n, 10)
FormatInt(n) == IF n < 0 THEN <<"-">> \o FormatNat(0 - n) ELSE FormatNat(n)

\* strconv.FormatFloat(f, 'f', -1, 64) of a whole-valued float
FormatFloat(f) == FormatInt(f)

DigitValue(c) == CHOOSE d \in 0..9 : DigitChars[d + 1] = c

RECURSIVE ParseNat(_)
ParseNat(s) ==
    IF Len(s) = 0 THEN 0
    ELSE 10 * ParseNat(SubSeq(s, 1, Len(s) - 1)) + DigitValue(s[Len(s)])

\* the store's reading of the decimal string of an N attribute
ParseN(s) == IF Len(s) > 0 /\ s[1] = "-" THEN 0 - ParseNat(Tail(s)) ELSE ParseNat(s)

----------------------------------------------------------------------------
(* Attribute values and the record type T *)

AvS(s) == [t |-> "S", v |-> s]
AvN(s) == [t |-> "N", v |-> s]

\* names given by the dynamodbav tags of T
hashKeyAttr == "id"
versionAttributeName == "version"
dataAttr == "data"

\* hashKey.name as New leaves it: set from the hashkey tag only when T does
\* not implement HasKey
hashKeyName == IF keyFromTags THEN hashKeyAttr ELSE ""

\* m.encoder.Encode of the numeric version field
EncodeVersion(v) == AvN(FormatInt(v))

\* Mapper.MarshalMap of a record [id, version, data]
MarshalMap(rec) ==
    (hashKeyAttr :> AvS(rec.id)) @@ (versionAttributeName :> EncodeVersion(rec.version))
        @@ (dataAttr :> AvS(rec.data))

\* Decoder.Decode of a stored item into a record of T
UnmarshalMap(item) ==
    [id |-> item[hashKeyAttr].v,
     version |-> IF versionAttributeName \in DOMAIN item
                 THEN ParseN(item[versionAttributeName].v) ELSE 0,
     data |-> IF dataAttr \in DOMAIN item THEN item[dataAttr].v ELSE <<>>]

----------------------------------------------------------------------------
(* Condition and update expressions *)

NilCond == [op |-> "nil"]
AttributeNotExists(name) == [op |-> "attribute_not_exists", name |-> name]
Equal(name, av) == [op |-> "equal", name |-> name, value |-> av]
CondAnd(l, r) == [op |-> "and", left |-> l, right |-> r]

AndRight(left, right) == right

AndLeftOnly(left, right) == IF left = NilCond THEN right ELSE left

\* expr.And(left, right) with a nillable left
And(left, right) == IF left = NilCond THEN right ELSE CondAnd(left, right)

\* ConditionBuilder.And(right, other...): one conjunction of all operands
RECURSIVE BuilderAnd(_, _, _)
BuilderAnd(left, right, other) ==
    IF Len(other) = 0 THEN CondAnd(left, right)
    ELSE BuilderAnd(CondAnd(left, right), Head(other), Tail(other))

\* expr.And(left, right, other...) and condition.And, the same code
AndOther(left, right, other) ==
    IF left = NilCond
    THEN IF Len(other) = 0 THEN And(left, right)
         ELSE BuilderAnd(right, Head(other), Tail(other))
    ELSE IF Len(other) = 0 THEN And(left, right)
         ELSE BuilderAnd(left, right, other)

SetValue(name, av) == [action |-> "SET", name |-> name, operand |-> "value", value |-> av]
SetPlus(name, av) == [action |-> "SET", name |-> name, operand |-> "plus", value |-> av]

\* expression.Builder.Build fails on an operand with an empty name
RECURSIVE CondBuilds(_)
CondBuilds(c) ==
    CASE c.op = "nil" -> TRUE
      [] c.op = "and" -> CondBuilds(c.left) /\ CondBuilds(c.right)
      [] OTHER -> c.name # ""

----------------------------------------------------------------------------
(* The version builders of New *)

putVersion(rec, in) ==
    LET v == rec.version IN
    IF v = 0
    THEN [item |-> (versionAttributeName :> AvN(<<"1">>)) @@ in,
          cond |-> AttributeNotExists(hashKeyName)]
    ELSE [item |-> (versionAttributeName :>
                       AvN(CASE versionKind = "int" -> FormatInt(v + 1)
                             [] versionKind = "uint" -> FormatInt(v + 1)
                             [] versionKind = "float" -> FormatFloat(v))) @@ in,
          cond |-> Equal(versionAttributeName, EncodeVersion(v))]

updateVersion(rec, update) ==
    LET v == rec.version IN
    IF v = 0
    THEN [update |-> Append(update, SetValue(versionAttributeName, AvN(FormatInt(1)))),
          cond |-> AttributeNotExists(hashKeyName)]
    ELSE [update |-> Append(update, SetPlus(versionAttributeName, AvN(FormatInt(1)))),
          cond |-> Equal(versionAttributeName, EncodeVersion(v))]

----------------------------------------------------------------------------
(* The store: conditional PutItem / UpdateItem on one item *)

RECURSIVE EvalCond(_, _)
EvalCond(c, item) ==
    CASE c.op = "nil" -> TRUE
      [] c.op = "attribute_not_exists" -> c.name \notin DOMAIN item
      [] c.op = "equal" ->
            /\ c.name \in DOMAIN item
            /\ item[c.name].t = c.value.t
            /\ IF c.value.t = "N" THEN ParseN(item[c.name].v) = ParseN(c.value.v)
               ELSE item[c.name].v = c.value.v
      [] c.op = "and" -> EvalCond(c.left, item) /\ EvalCond(c.right, item)

ApplyAction(item, a) ==
    IF a.operand = "value" THEN (a.name :> a.value) @@ item
    ELSE (a.name :> AvN(FormatInt(ParseN(item[a.name].v) + ParseN(a.value.v)))) @@ item

RECURSIVE ApplyUpdate(_, _)
ApplyUpdate(item, update) ==
    IF Len(update) = 0 THEN item
    ELSE ApplyUpdate(ApplyAction(item, Head(update)), Tail(update))

\* SET a = a + :v on an attribute that the item lacks is rejected
UpdateValid(item, update) ==
    \A k \in 1..Len(update) :
        update[k].operand = "plus" =>
            \/ update[k].name \in DOMAIN item
            \/ \E j \in 1..(k - 1) : update[j].name = update[k].name

----------------------------------------------------------------------------
(* Writers *)

NoInput == [kind |-> "none"]

IdleWriter(rec) ==
    [pc |-> "idle", op |-> "none", locking |-> FALSE, rec |-> rec,
     cond |-> NilCond, input |-> NoInput, result |-> "none", first |-> <<>>]

NewRecord(i) == [id |-> <<"k">>, version |-> 0, data |-> <<DigitChars[i + 1]>>]

\* the record a writer holds after reading the item (a new one if none)
HeldRecord(i, item) ==
    IF item = <<>> THEN NewRecord(i)
    ELSE [UnmarshalMap(item) EXCEPT !.data = <<DigitChars[i + 1]>>]

StoredItem(v) == MarshalMap([id |-> <<"k">>, version |-> v, data |-> <<"0">>])

InitMapper ==
    /\ queue = QueueIdle
    /\ wrap = WrapIdle
    /\ expr = ExprIdle
    /\ versionKind \in {"int", "uint", "float"}
    /\ keyFromTags \in BOOLEAN
    /\ stored \in {<<>>} \cup {StoredItem(v) : v \in 1..2}
    /\ w = [i \in Writers |-> IdleWriter(HeldRecord(i, stored))]
    /\ tok = TokIdle
    /\ batch = BatchIdle
    /\ build = BuildIdle
    /\ call = CallIdle

\* Mapper.Put up to the store call
PutCompose(i, locking) ==
    /\ w[i].pc = "idle"
    /\ LET rec == w[i].rec
           mav == MarshalMap(rec)
           pv == putVersion(rec, mav)
           item == IF locking THEN pv.item ELSE mav
           cond == IF locking THEN And(NilCond, pv.cond) ELSE NilCond
       IN  w' = [w EXCEPT ![i] =
                   IF CondBuilds(cond)
                   THEN [@ EXCEPT !.pc = "built", !.op = "put", !.locking = locking,
                                  !.cond = cond,
                                  !.input = [kind |-> "put", Item |-> item, Condition |-> cond]]
                   ELSE [@ EXCEPT !.pc = "done", !.op = "put", !.locking = locking,
                                  !.cond = cond, !.result = "builderr"]]
    /\ UNCHANGED <<versionKind, keyFromTags, stored, tok, batch, build, call, queue, wrap, expr>>

PutDispatchThroughMapper(i) ==
    /\ w[i].pc = "built"
    /\ w[i].op = "put"
    /\ stored' = IF EvalCond(w[i].input.Condition, stored) THEN w[i].input.Item
                 ELSE stored
    /\ w' = [w EXCEPT ![i].pc = "done",
                      ![i].result = IF EvalCond(w[i].input.Condition, stored)
                                    THEN "ok" ELSE "ccf"]
    /\ keyFromTags' = FALSE
    /\ UNCHANGED <<versionKind, tok, batch, build, call, queue, wrap, expr>>

\* m.client.PutItem
PutDispatch(i) ==
    /\ w[i].pc = "built"
    /\ w[i].op = "put"
    /\ IF EvalCond(w[i].input.Condition, stored)
       THEN /\ stored' = w[i].input.Item
            /\ w' = [w EXCEPT ![i].pc = "done", ![i].result = "ok"]
       ELSE /\ stored' = stored
            /\ w' = [w EXCEPT ![i].pc = "done", ![i].result = "ccf"]
    /\ UNCHANGED <<versionKind, keyFromTags, tok, batch, build, call, queue, wrap, expr>>

\* Mapper.Update up to the store call; the required mutator sets "data"
UpdateCompose(i, locking) ==
    /\ w[i].pc = "idle"
    /\ LET rec == w[i].rec
           key == (hashKeyAttr :> AvS(rec.id))
           required == <<SetValue(dataAttr, AvS(rec.data))>>
           uv == updateVersion(rec, required)
           update == IF locking THEN uv.update ELSE required
           cond == IF locking THEN And(NilCond, uv.cond) ELSE NilCond
       IN  w' = [w EXCEPT ![i] =
                   IF CondBuilds(cond)
                   THEN [@ EXCEPT !.pc = "built", !.op = "update", !.locking = locking,
                                  !.cond = cond,
                                  !.input = [kind |-> "update", Key |-> key,
                                             Update |-> update, Condition |-> cond]]
                   ELSE [@ EXCEPT !.pc = "done", !.op = "update", !.locking = locking,
                                  !.cond = cond, !.result = "builderr"]]
    /\ UNCHANGED <<versionKind, keyFromTags, stored, tok, batch, build, call, queue, wrap, expr>>

\* m.client.UpdateItem
UpdateDispatch(i) ==
    /\ w[i].pc = "built"
    /\ w[i].op = "update"
    /\ LET in == w[i].input
           base == IF stored = <<>> THEN in.Key ELSE stored
       IN  IF ~EvalCond(in.Condition, stored)
           THEN /\ stored' = stored
                /\ w' = [w EXCEPT ![i].pc = "done", ![i].result = "ccf"]
           ELSE IF ~UpdateValid(base, in.Update)
           THEN /\ stored' = stored
                /\ w' = [w EXCEPT ![i].pc = "done", ![i].result = "invalid"]
           ELSE /\ stored' = ApplyUpdate(base, in.Update)
                /\ w' = [w EXCEPT ![i].pc = "done", ![i].result = "ok"]
    /\ UNCHANGED <<versionKind, keyFromTags, tok, batch, build, call, queue, wrap, expr>>

\* once every writer has returned, each reads the item again (Mapper.Get)
Reload ==
    /\ \A i \in Writers : w[i].pc = "done"
    /\ stored # <<>> => UnmarshalMap(stored).version < MaxVersion
    /\ w' = [i \in Writers |-> IdleWriter(HeldRecord(i, stored))]
    /\ UNCHANGED <<versionKind, keyFromTags, stored, tok, batch, build, call, queue, wrap, expr>>

\* Put takes item by value and writes only to the request: after a Put that
\* succeeded the caller holds the record it passed, and may pass it again;
\* first remembers the item that Put wrote and whether it was conditional
PutReturned(i) ==
    /\ w[i].pc = "done"
    /\ w[i].op = "put"
    /\ w[i].result = "ok"
    /\ w[i].first = <<>>
    /\ w' = [w EXCEPT ![i] = [IdleWriter(w[i].rec) EXCEPT
                                 !.first = <<[item |-> w[i].input.Item,
                                              locking |-> w[i].locking]>>]]
    /\ UNCHANGED <<versionKind, keyFromTags, stored, tok, batch, build, call, queue, wrap, expr>>

NextMapper ==
    \/ \E i \in Writers, locking \in BOOLEAN : PutCompose(i, locking)
    \/ \E i \in Writers : PutReturned(i)
    \/ \E i \in Writers : PutDispatch(i)
    \/ \E i \in Writers, locking \in BOOLEAN : UpdateCompose(i, locking)
    \/ \E i \in Writers : UpdateDispatch(i)
    \/ Reload

SpecMapper == InitMapper /\ [][NextMapper]_vars

----------------------------------------------------------------------------
(* Strings and bytes of the token codec *)

\* the characters with codes 32..126 ("grave" stands for code 96);
\* []byte(s) and string(b) go through it
AsciiChars ==
    <<
      " ", "!", "\"", "#", "$", "%", "&", "'", "(", ")", "*", "+", ",", "-", ".", "/",
      "0", "1", "2", "3", "4", "5", "6", "7", "8", "9", ":", ";", "<", "=", ">", "?",
      "@", "A", "B", "C", "D", "E", "F", "G", "H", "I", "J", "K", "L", "M", "N", "O",
      "P", "Q", "R", "S", "T", "U", "V", "W", "X", "Y", "Z", "[", "\\", "]", "^", "_",
      "grave", "a", "b", "c", "d", "e", "f", "g", "h", "i", "j", "k", "l", "m", "n", "o",
      "p", "q", "r", "s", "t", "u", "v", "w", "x", "y", "z", "{", "|", "}", "~"
    >>

Code(c) == 31 + (CHOOSE i \in 1..Len(AsciiChars) : AsciiChars[i] = c)

Char(b) == AsciiChars[b - 31]

StringToBytes(s) == [i \in 1..Len(s) |-> Code(s[i])]

BytesToString(bs) == [i \in 1..Len(bs) |-> Char(bs[i])]

\* bytewise order of Go strings, as encoding/json sorts map keys
RECURSIVE LessStr(_, _)
LessStr(a, b) ==
    IF Len(b) = 0 THEN FALSE
    ELSE IF Len(a) = 0 THEN TRUE
    ELSE IF Code(a[1]) # Code(b[1]) THEN Code(a[1]) < Code(b[1])
    ELSE LessStr(Tail(a), Tail(b))

RECURSIVE SortedNames(_)
SortedNames(S) ==
    IF S = {} THEN <<>>
    ELSE LET least == CHOOSE x \in S : \A y \in S \ {x} : LessStr(x, y)
         IN  <<least>> \o SortedNames(S \ {least})

----------------------------------------------------------------------------
(* encoding/base64: RawStdEncoding and RawURLEncoding (no padding) *)

StdAlphabet ==
    <<
      "A", "B", "C", "D", "E", "F", "G", "H", "I", "J", "K", "L", "M", "N", "O", "P",
      "Q", "R", "S", "T", "U", "V", "W", "X", "Y", "Z", "a", "b", "c", "d", "e", "f",
      "g", "h", "i", "j", "k", "l", "m", "n", "o", "p", "q", "r", "s", "t", "u", "v",
      "w", "x", "y", "z", "0", "1", "2", "3", "4", "5", "6", "7", "8", "9", "+", "/"
    >>

URLAlphabet ==
    <<
      "A", "B", "C", "D", "E", "F", "G", "H", "I", "J", "K", "L", "M", "N", "O", "P",
      "Q", "R", "S", "T", "U", "V", "W", "X", "Y", "Z", "a", "b", "c", "d", "e", "f",
      "g", "h", "i", "j", "k", "l", "m", "n", "o", "p", "q", "r", "s", "t", "u", "v",
      "w", "x", "y", "z", "0", "1", "2", "3", "4", "5", "6", "7", "8", "9", "-", "_"
    >>

B64Group(al, g) ==
    LET n == Len(g)
        b1 == g[1]
        b2 == IF n >= 2 THEN g[2] ELSE 0
        b3 == IF n >= 3 THEN g[3] ELSE 0
        c1 == al[(b1 \div 4) + 1]
        c2 == al[((b1 % 4) * 16 + (b2 \div 16)) + 1]
        c3 == al[((b2 % 16) * 4 + (b3 \div 64)) + 1]
        c4 == al[(b3 % 64) + 1]
    IN  IF n = 1 THEN <<c1, c2>> ELSE IF n = 2 THEN <<c1, c2, c3>> ELSE <<c1, c2, c3, c4>>

RECURSIVE EncodeToString(_, _)
EncodeToString(al, bs) ==
    IF Len(bs) = 0 THEN <<>>
    ELSE IF Len(bs) <= 3 THEN B64Group(al, bs)
    ELSE B64Group(al, SubSeq(bs, 1, 3)) \o EncodeToString(al, SubSeq(bs, 4, Len(bs)))

B64Index(al, c) == (CHOOSE i \in 1..64 : al[i] = c) - 1

\* DecodeString fails on a character outside the alphabet and on a length
\* that leaves a single character in the last group
B64Valid(al, s) ==
    /\ Len(s) % 4 # 1
    /\ \A i \in 1..Len(s) : \E j \in 1..64 : al[j] = s[i]

B64Ungroup(al, g) ==
    LET n == Len(g)
        i1 == B64Index(al, g[1])
        i2 == B64Index(al, g[2])
        i3 == IF n >= 3 THEN B64Index(al, g[3]) ELSE 0
        i4 == IF n >= 4 THEN B64Index(al, g[4]) ELSE 0
        b1 == i1 * 4 + (i2 \div 16)
        b2 == (i2 % 16) * 16 + (i3 \div 4)
        b3 == (i3 % 4) * 64 + i4
    IN  IF n = 2 THEN <<b1>> ELSE IF n = 3 THEN <<b1, b2>> ELSE <<b1, b2, b3>>

RECURSIVE DecodeString(_, _)
DecodeString(al, s) ==
    IF Len(s) = 0 THEN <<>>
    ELSE IF Len(s) <= 4 THEN B64Ungroup(al, s)
    ELSE B64Ungroup(al, SubSeq(s, 1, 4)) \o DecodeString(al, SubSeq(s, 5, Len(s)))

----------------------------------------------------------------------------
(* encoding/json of map[string]map[string]string; the strings of the model  *)
(* hold no control character and none of <, >, &, so the only escapes are   *)
(* those of the quote and the backslash                                     *)

RECURSIVE EscapeQuoteOnly(_)
EscapeQuoteOnly(s) ==
    IF Len(s) = 0 THEN <<>>
    ELSE (IF s[1] = "\"" THEN <<"\\", s[1]>> ELSE <<s[1]>>) \o EscapeQuoteOnly(Tail(s))

RECURSIVE Escape(_)
Escape(s) ==
    IF Len(s) = 0 THEN <<>>
    ELSE (IF s[1] \in {"\"", "\\"} THEN <<"\\", s[1]>> ELSE <<s[1]>>) \o Escape(Tail(s))

Quote(s) == <<"\"">> \o Escape(s) \o <<"\"">>

RECURSIVE MarshalMembers(_, _)
MarshalMembers(names, m) ==
    IF Len(names) = 0 THEN <<>>
    ELSE Quote(names[1]) \o <<":">> \o m[names[1]]
            \o (IF Len(names) > 1 THEN <<",">> ELSE <<>>)
            \o MarshalMembers(Tail(names), m)

\* an object whose members, sorted by name, have the texts m[name]
MarshalObject(m) == <<"{">> \o MarshalMembers(SortedNames(DOMAIN m), m) \o <<"}">>

\* json.Marshal(item)
MarshalJSON(item) ==
    MarshalObject([k \in DOMAIN item |->
                      MarshalObject([t \in DOMAIN item[k] |-> Quote(item[k][t])])])

ParseFail == [ok |-> FALSE, val |-> <<>>, next |-> 0]

RECURSIVE ScanString(_, _, _)
ScanString(s, i, acc) ==
    IF i > Len(s) THEN ParseFail
    ELSE IF s[i] = "\"" THEN [ok |-> TRUE, val |-> acc, next |-> i + 1]
    ELSE IF s[i] = "\\"
         THEN IF i + 1 <= Len(s) /\ s[i + 1] \in {"\"", "\\"}
              THEN ScanString(s, i + 2, Append(acc, s[i + 1]))
              ELSE ParseFail
    ELSE ScanString(s, i + 1, Append(acc, s[i]))

ParseString(s, i) ==
    IF i <= Len(s) /\ s[i] = "\"" THEN ScanString(s, i + 1, <<>>) ELSE ParseFail

\* a member's value: a string in an inner object (depth 1), an object in
\* the outer one (depth 2)
RECURSIVE ParseObject(_, _, _)
ParseValue(s, i, depth) ==
    IF depth = 1 THEN ParseString(s, i) ELSE ParseObject(s, i, depth - 1)

RECURSIVE ParseMembers(_, _, _, _)
\* after "name":value ; a repeated name keeps the last value
MembersAfterValue(s, k, v, acc, depth) ==
    IF ~v.ok \/ v.next > Len(s) THEN ParseFail
    ELSE IF s[v.next] = "}"
         THEN [ok |-> TRUE, val |-> (k.val :> v.val) @@ acc, next |-> v.next + 1]
    ELSE IF s[v.next] = ","
         THEN ParseMembers(s, v.next + 1, (k.val :> v.val) @@ acc, depth)
    ELSE ParseFail

\* after "name"
MembersAfterName(s, k, acc, depth) ==
    IF ~k.ok \/ k.next > Len(s) \/ s[k.next] # ":" THEN ParseFail
    ELSE MembersAfterValue(s, k, ParseValue(s, k.next + 1, depth), acc, depth)

\* members "name":value of an object
ParseMembers(s, i, acc, depth) == MembersAfterName(s, ParseString(s, i), acc, depth)

ParseObject(s, i, depth) ==
    IF i + 1 <= Len(s) /\ s[i] = "{"
    THEN IF s[i + 1] = "}" THEN [ok |-> TRUE, val |-> <<>>, next |-> i + 2]
         ELSE ParseMembers(s, i + 1, <<>>, depth)
    ELSE ParseFail

WholeText(s, p) == IF p.ok /\ p.next = Len(s) + 1 THEN p ELSE ParseFail

\* json.Unmarshal([]byte(token), &item): the whole text is one object of
\* objects of strings
UnmarshalJSON(s) == WholeText(s, ParseObject(s, 1, 2))

----------------------------------------------------------------------------
(* aesTransformer: AES-GCM, abstracted to a keyed stream and a keyed tag of *)
(* the real sizes; Open fails unless the tag matches key, nonce and text    *)

NonceSize == 12

TagSize == 16

RECURSIVE WeightedSum(_)
WeightedSum(bs) ==
    IF Len(bs) = 0 THEN 0
    ELSE (WeightedSum(SubSeq(bs, 1, Len(bs) - 1)) + Len(bs) * bs[Len(bs)]) % 65536

KeyStream(secret, nonce, i) == (secret * 7 + nonce[((i - 1) % NonceSize) + 1] + i) % 256

GcmTag(secret, nonce, ct) ==
    [j \in 1..TagSize |->
        (secret * 31 + WeightedSum(nonce) + WeightedSum(ct) + Len(ct) + j) % 256]

\* gcm.Seal(nonce, nonce, plaintext, nil)
Seal(secret, nonce, pt) ==
    LET ct == [i \in 1..Len(pt) |-> (pt[i] + KeyStream(secret, nonce, i)) % 256]
    IN  nonce \o ct \o GcmTag(secret, nonce, ct)

\* gcm.Open(nil, nonce, data, nil)
Open(secret, nonce, data) ==
    IF Len(data) < TagSize THEN [err |-> TRUE, pt |-> <<>>]
    ELSE LET ct == SubSeq(data, 1, Len(data) - TagSize)
             tag == SubSeq(data, Len(data) - TagSize + 1, Len(data))
         IN  IF tag # GcmTag(secret, nonce, ct) THEN [err |-> TRUE, pt |-> <<>>]
             ELSE [err |-> FALSE,
                   pt |-> [i \in 1..Len(ct) |->
                              (ct[i] + 256 - KeyStream(secret, nonce, i)) % 256]]

\* aesTransformer.Encode
aesEncode(secret, nonce, s) ==
    EncodeToString(URLAlphabet, Seal(secret, nonce, StringToBytes(s)))

\* aesTransformer.Decode; slicing data[nonceSize:] of a shorter data panics
aesDecode(secret, s) ==
    IF ~B64Valid(URLAlphabet, s) THEN [err |-> TRUE, panic |-> FALSE, s |-> <<>>]
    ELSE LET data == DecodeString(URLAlphabet, s) IN
         IF Len(s) < NonceSize THEN [err |-> TRUE, panic |-> FALSE, s |-> <<>>]
         ELSE IF Len(data) < NonceSize THEN [err |-> FALSE, panic |-> TRUE, s |-> <<>>]
         ELSE LET o == Open(secret, SubSeq(data, 1, NonceSize),
                            SubSeq(data, NonceSize + 1, Len(data)))
              IN  IF o.err THEN [err |-> TRUE, panic |-> FALSE, s |-> <<>>]
                  ELSE [err |-> FALSE, panic |-> FALSE, s |-> BytesToString(o.pt)]

----------------------------------------------------------------------------
(* Tokenizer *)

AvB(bs) == [t |-> "B", v |-> bs]
AvBOOL == [t |-> "BOOL", v |-> <<>>]

TagS == <<"S">>
TagN == <<"N">>
TagB == <<"B">>

ValidKeyCountAny(n) == n \in {1, 2, 3}

\* switch n := len(key) of Encode
ValidKeyCount(n) == n \in {1, 2}

\* switch n := len(item) of Decode
ValidItemCount(n) == n \in {1, 2}

KeyCapable(av) == av.t \in {"S", "N", "B"}

\* item[k] as the loop of Encode fills it
EncodeAttribute(av) ==
    CASE av.t = "S" -> (TagS :> av.v)
      [] av.t = "N" -> (TagN :> av.v)
      [] av.t = "B" -> (TagB :> EncodeToString(StdAlphabet, av.v))

EncodeError == [token |-> <<>>, err |-> TRUE, calls |-> 0]

\* Tokenizer.Encode; calls counts the calls of Transformer.Encode
TokenizerEncode(transformer, secret, nonce, key) ==
    IF ~ValidKeyCount(Cardinality(DOMAIN key)) THEN EncodeError
    ELSE IF \E k \in DOMAIN key : ~KeyCapable(key[k]) THEN EncodeError
    ELSE LET item == [k \in DOMAIN key |-> EncodeAttribute(key[k])]
             token == MarshalJSON(item)
         IN  IF transformer = "aes"
             THEN [token |-> aesEncode(secret, nonce, token), err |-> FALSE, calls |-> 1]
             ELSE [token |-> token, err |-> FALSE, calls |-> 0]

NamesAsRanged(order) == order

\* json.Marshal of a map: the keys, collected in the order the map is
\* ranged over, are sorted before the members are written
NamesSorted(order) == SortedNames({order[i] : i \in 1..Len(order)})

\* Tokenizer.Encode with the order in which "for k, v := range key" and
\* json.Marshal meet the attributes of key
TokenizerEncodeRanged(transformer, secret, nonce, key, order) ==
    IF ~ValidKeyCount(Len(order)) THEN EncodeError
    ELSE IF \E i \in 1..Len(order) : ~KeyCapable(key[order[i]]) THEN EncodeError
    ELSE LET item == [k \in DOMAIN key |-> EncodeAttribute(key[k])]
             members == [k \in DOMAIN item |->
                           MarshalObject([t \in DOMAIN item[k] |-> Quote(item[k][t])])]
             token == <<"{">> \o MarshalMembers(NamesSorted(order), members) \o <<"}">>
         IN  IF transformer = "aes"
             THEN [token |-> aesEncode(secret, nonce, token), err |-> FALSE, calls |-> 1]
             ELSE [token |-> token, err |-> FALSE, calls |-> 0]

DecodeError(n) == [err |-> TRUE, panic |-> FALSE, key |-> <<>>, nattrs |-> n]

\* key[k] as the loop of Decode sets it; an attribute with another tag is
\* passed over
DecodedAttributes(item) ==
    {k \in DOMAIN item : \E t \in {TagS, TagN, TagB} : t \in DOMAIN item[k]}

DecodeAttribute(v) ==
    IF TagS \in DOMAIN v THEN AvS(v[TagS])
    ELSE IF TagN \in DOMAIN v THEN AvN(v[TagN])
    ELSE AvB(DecodeString(StdAlphabet, v[TagB]))

\* the loop of Decode over the n attributes of item
DecodeItem(item, n) ==
    IF ~ValidItemCount(n) THEN DecodeError(n)
    ELSE IF \E k \in DOMAIN item : Cardinality(DOMAIN item[k]) # 1
         THEN DecodeError(n)
    ELSE IF \E k \in DOMAIN item :
               /\ TagB \in DOMAIN item[k]
               /\ ~B64Valid(StdAlphabet, item[k][TagB])
         THEN DecodeError(n)
    ELSE [err |-> FALSE, panic |-> FALSE,
          key |-> [k \in DecodedAttributes(item) |-> DecodeAttribute(item[k])],
          nattrs |-> n]

\* Decode after json.Unmarshal
DecodeObject(p) ==
    IF ~p.ok THEN DecodeError(0) ELSE DecodeItem(p.val, Cardinality(DOMAIN p.val))

\* Decode after Transformer.Decode
DecodeTransformed(tr) ==
    IF tr.panic THEN [err |-> FALSE, panic |-> TRUE, key |-> <<>>, nattrs |-> 0]
    ELSE IF tr.err THEN DecodeError(0)
    ELSE DecodeObject(UnmarshalJSON(tr.s))

\* Tokenizer.Decode; nattrs is the number of members of the token's object
TokenizerDecode(transformer, secret, token) ==
    DecodeTransformed(IF transformer = "aes" THEN aesDecode(secret, token)
                      ELSE [err |-> FALSE, panic |-> FALSE, s |-> token])

----------------------------------------------------------------------------
(* Claims about optimistic locking *)

BothLocked == \A i \in Writers : w[i].pc = "done" /\ w[i].locking

\* C1: when both writers held the stored version (or zero for an item not
\* stored yet) and both wrote with optimistic locking, exactly one write
\* succeeded and the other got a conditional-check failure; never both.
C1_ExactlyOneWriterSucceeds ==
    BothLocked =>
        /\ ~(\A i \in Writers : w[i].result = "ok")
        /\ \E i \in Writers :
              /\ w[i].result = "ok"
              /\ \A j \in Writers \ {i} : w[j].result = "ccf"

\* C2: the version condition generated by Put and by Update is
\* attribute_not_exists on the hash-key attribute when the record's version
\* is zero and version = current value otherwise.
C2_VersionConditionShape ==
    \A i \in Writers :
        (w[i].op # "none" /\ w[i].locking) =>
            IF w[i].rec.version = 0
            THEN w[i].cond = AttributeNotExists(hashKeyAttr)
            ELSE w[i].cond = Equal(versionAttributeName, AvN(FormatInt(w[i].rec.version)))

\* C3: a Put with optimistic locking sends version v+1 in the item (1 when v
\* is zero) for every numeric kind of the version field.
C3_PutWritesNextVersion ==
    \A i \in Writers :
        (w[i].pc = "built" /\ w[i].op = "put" /\ w[i].locking) =>
            /\ versionAttributeName \in DOMAIN w[i].input.Item
            /\ ParseN(w[i].input.Item[versionAttributeName].v) = w[i].rec.version + 1

C29_SecondPutRejected ==
    \A i \in DOMAIN w :
       (/\ w[i].first # <<>>
        /\ w[i].first[1].locking
        /\ w[i].pc = "done" /\ w[i].op = "put" /\ w[i].locking
        /\ \A j \in DOMAIN w \ {i} :
              w[j].pc = "idle" /\ w[j].op = "none" /\ w[j].first = <<>>)
       => /\ w[i].result = "ccf"
          /\ stored = w[i].first[1].item

----------------------------------------------------------------------------
(* The token codec as a state machine: one Encode, then Decode of its       *)
(* output or of another string                                              *)

NameId == <<"i", "d">>
NameRange == <<"r", "a", "n", "g", "e">>
NameZ == <<"z">>

AttrValues ==
    {AvS(<<"h">>), AvS(<<"a", "\"", "\\">>), AvN(<<"4", "2">>),
     AvB(<<251, 255>>), AvB(<<0, 255, 16, 7>>), AvBOOL}

\* keys of zero to three attributes, of key-capable and other kinds
Keys ==
    {<<>>}
        \cup {(NameId :> a) : a \in AttrValues}
        \cup {(NameId :> a) @@ (NameRange :> b) : a \in AttrValues, b \in AttrValues}
        \cup {(NameId :> a) @@ (NameRange :> a) @@ (NameZ :> a) : a \in {AvS(<<"h">>), AvBOOL}}

Secrets == {1, 2}

\* the values rand.Reader may give the nonce
Nonces == {[i \in 1..NonceSize |-> b] : b \in {3, 200}}

\* longest run of one base64 character offered to Decode
MaxGarbageLen == 17

Garbage ==
    {[i \in 1..n |-> "A"] : n \in 0..MaxGarbageLen} \cup {<<"!">>, [i \in 1..16 |-> "="]}

\* objects as json.Unmarshal may meet them in a token: other type tags, no
\* tag, two tags, no or three attributes, a B value that is not base64
RawItems ==
    {(NameId :> (<<"B", "O", "O", "L">> :> <<"x">>)),
     (NameId :> (TagS :> <<"h">>)) @@ (NameRange :> (<<"L">> :> <<>>)),
     (NameId :> ((TagS :> <<"h">>) @@ (TagN :> <<"1">>))),
     (NameId :> <<>>),
     <<>>,
     (NameId :> (TagS :> <<"h">>)) @@ (NameRange :> (TagS :> <<"h">>))
         @@ (NameZ :> (TagS :> <<"h">>)),
     (NameId :> (TagB :> <<"!", "!">>)),
     (NameId :> (TagB :> <<"a">>)),
     (NameId :> (TagN :> <<"7">>))}

\* a token that holds the object raw, as the tokenizer's peer would send it
Crafted(transformer, secret, raw) ==
    IF transformer = "aes"
    THEN aesEncode(secret, [i \in 1..NonceSize |-> 9], MarshalJSON(raw))
    ELSE MarshalJSON(raw)

Prefixes(s) == {SubSeq(s, 1, n) : n \in 0..(Len(s) - 1)}

Tampered(s) ==
    {[s EXCEPT ![i] = IF s[i] = "A" THEN "B" ELSE "A"] : i \in {1, Len(s) \div 2}}

NotEncoded == [done |-> FALSE, token |-> <<>>, err |-> FALSE, calls |-> 0]

NotDecoded ==
    [done |-> FALSE, input |-> <<>>, roundtrip |-> FALSE,
     err |-> FALSE, panic |-> FALSE, key |-> <<>>, nattrs |-> 0]

InitToken ==
    /\ queue = QueueIdle
    /\ wrap = WrapIdle
    /\ expr = ExprIdle
    /\ tok \in {[transformer |-> t, secret |-> 1, key |-> k,
                 enc |-> NotEncoded, again |-> NotEncoded, order |-> <<>>,
                 dec |-> NotDecoded] :
                    t \in {"none", "aes"}, k \in Keys}
    /\ versionKind = "int"
    /\ keyFromTags = TRUE
    /\ stored = <<>>
    /\ w = <<>>
    /\ batch = BatchIdle
    /\ build = BuildIdle
    /\ call = CallIdle

\* Tokenizer.Encode(key)
Encode(nonce) ==
    /\ ~tok.enc.done
    /\ LET r == TokenizerEncode(tok.transformer, tok.secret, nonce, tok.key)
       IN  tok' = [tok EXCEPT !.enc = [done |-> TRUE, token |-> r.token,
                                       err |-> r.err, calls |-> r.calls]]
    /\ UNCHANGED <<mapperVars, batch, build, call, queue, wrap, expr>>

Returned(s, roundtrip, r) ==
    [done |-> TRUE, input |-> s, roundtrip |-> roundtrip,
     err |-> r.err, panic |-> r.panic, key |-> r.key, nattrs |-> r.nattrs]

DecodeResult(secret, s, roundtrip) ==
    Returned(s, roundtrip, TokenizerDecode(tok.transformer, secret, s))

\* Tokenizer.Decode of the token that Encode returned, by the same tokenizer
DecodeEncoded ==
    /\ tok.enc.done
    /\ ~tok.enc.err
    /\ ~tok.again.done
    /\ ~tok.dec.done
    /\ tok' = [tok EXCEPT !.dec = DecodeResult(tok.secret, tok.enc.token, TRUE)]
    /\ UNCHANGED <<mapperVars, batch, build, call, queue, wrap, expr>>

\* Tokenizer.Decode of a cut or altered token, or with another secret key
DecodeAltered ==
    /\ tok.enc.done
    /\ ~tok.enc.err
    /\ ~tok.again.done
    /\ ~tok.dec.done
    /\ \E s \in Prefixes(tok.enc.token) \cup Tampered(tok.enc.token) \cup {tok.enc.token},
          secret \in Secrets :
            /\ s # tok.enc.token \/ (secret # tok.secret /\ tok.transformer = "aes")
            /\ tok' = [tok EXCEPT !.dec = DecodeResult(secret, s, FALSE)]
    /\ UNCHANGED <<mapperVars, batch, build, call, queue, wrap, expr>>

\* Tokenizer.Decode of a string from elsewhere
DecodeForeign ==
    /\ ~tok.enc.done
    /\ ~tok.again.done
    /\ ~tok.dec.done
    /\ \E s \in Garbage \cup {Crafted(tok.transformer, tok.secret, raw) : raw \in RawItems} :
          tok' = [tok EXCEPT !.dec = DecodeResult(tok.secret, s, FALSE)]
    /\ UNCHANGED <<mapperVars, batch, build, call, queue, wrap, expr>>

\* the orders in which a range over the map may meet its attributes
Orders(key) ==
    {o \in [1..Cardinality(DOMAIN key) -> DOMAIN key] :
        \A i, j \in DOMAIN o : i # j => o[i] # o[j]}

\* Tokenizer.Encode(key) once more, the map ranged over in some order; a
\* tokenizer of the model makes one call after its first Encode
EncodeAgain(nonce) ==
    /\ tok.enc.done
    /\ ~tok.again.done
    /\ ~tok.dec.done
    /\ \E order \in Orders(tok.key) :
         LET r == TokenizerEncodeRanged(tok.transformer, tok.secret, nonce, tok.key, order)
         IN  tok' = [tok EXCEPT !.order = order,
                                !.again = [done |-> TRUE, token |-> r.token,
                                           err |-> r.err, calls |-> r.calls]]
    /\ UNCHANGED <<mapperVars, batch, build, call, queue, wrap, expr>>

NextToken ==
    \/ \E nonce \in Nonces : Encode(nonce)
    \/ \E nonce \in Nonces : EncodeAgain(nonce)
    \/ DecodeEncoded
    \/ DecodeAltered
    \/ DecodeForeign

SpecToken == InitToken /\ [][NextToken]_vars

----------------------------------------------------------------------------
(* Claims about the token codec *)

ValidKey(k) ==
    /\ Cardinality(DOMAIN k) \in {1, 2}
    /\ \A a \in DOMAIN k : k[a].t \in {"S", "N", "B"}

\* C4: for every key of one or two attributes of kind S, N or B, Encode
\* succeeds and Decode of its token returns, without error, the same key,
\* with no transformer and with the AES transformer under one secret key.
C4_RoundTrip ==
    /\ (tok.enc.done /\ ValidKey(tok.key)) => ~tok.enc.err
    /\ (tok.dec.done /\ tok.dec.roundtrip) =>
          /\ ~tok.dec.err
          /\ ~tok.dec.panic
          /\ tok.dec.key = tok.key

C4_Witness ==
    /\ tok.dec.done
    /\ tok.dec.roundtrip
    /\ tok.transformer = "aes"
    /\ Cardinality(DOMAIN tok.key) = 2
    /\ \E a \in DOMAIN tok.key : tok.key[a].t = "B"
    /\ \E a \in DOMAIN tok.key : tok.key[a] = AvS(<<"a", "\"", "\\">>)

ShorterThanNonce(s) ==
    B64Valid(URLAlphabet, s) /\ Len(DecodeString(URLAlphabet, s)) < NonceSize

\* C5: with the AES transformer Decode never panics, and it returns an error
\* for every input whose base64-decoded bytes are shorter than one nonce.
C5_DecodeNeverPanics ==
    (tok.transformer = "aes" /\ tok.dec.done) =>
        /\ ~tok.dec.panic
        /\ ShorterThanNonce(tok.dec.input) => tok.dec.err

\* C6: when Decode returns without error the key has as many attributes as
\* the token's object, one or two, each of kind S, N or B; no attribute of
\* the token is left out.
C6_DecodeAllOrNothing ==
    (tok.dec.done /\ ~tok.dec.err /\ ~tok.dec.panic) =>
        /\ tok.dec.nattrs \in {1, 2}
        /\ Cardinality(DOMAIN tok.dec.key) = tok.dec.nattrs
        /\ \A a \in DOMAIN tok.dec.key : tok.dec.key[a].t \in {"S", "N", "B"}

\* C7: Encode of a key with no attribute, with more than two, or with an
\* attribute that is not S, N or B returns an error and the empty token,
\* and does not call the Transformer.
C7_EncodeRejects ==
    (tok.enc.done /\ ~ValidKey(tok.key)) =>
        /\ tok.enc.err
        /\ tok.enc.token = <<>>
        /\ tok.enc.calls = 0

C7_Witness ==
    /\ tok.enc.done
    /\ tok.enc.err
    /\ tok.transformer = "aes"
    /\ Cardinality(DOMAIN tok.key) = 3
    /\ \A a \in DOMAIN tok.key : tok.key[a].t = "S"

\* C24: without a Transformer, encoding the same key again gives the same
\* token string, in whatever order the attributes of the key are ranged over.
C24_EncodeDeterministic ==
    (tok.transformer = "none" /\ tok.enc.done /\ tok.again.done) =>
        /\ tok.again.token = tok.enc.token
        /\ tok.again.err = tok.enc.err

\* C24 witness: a key of two attributes encoded a second time with the
\* attributes met in the order opposite to the sorted one.
C24_Witness ==
    /\ tok.transformer = "none" /\ tok.enc.done /\ tok.again.done
    /\ ~tok.enc.err
    /\ tok.order = <<NameRange, NameId>>
    /\ tok.key[NameId] # tok.key[NameRange]

----------------------------------------------------------------------------
(* The batch engine: BatchLoad and BatchSave *)

\* ceilings of BatchGetItem and of BatchWriteItem
MaxBatchGet == 100

MaxBatchWrite == 25

Ceiling(op) == IF op = "load" THEN MaxBatchGet ELSE MaxBatchWrite

ChunkSizeUncapped(op, n) == n

\* n := len(keys); if n > 100 { n = 100 }   (25 in BatchSave)
ChunkSize(op, n) == IF n > Ceiling(op) THEN Ceiling(op) ELSE n

\* keys[:n]
Chunk(keys, n) == SubSeq(keys, 1, n)

\* keys = keys[n:]
Remaining(keys, n) == SubSeq(keys, n + 1, Len(keys))

LoopNeverDone(keys) == FALSE

\* the loop condition n != 0
LoopDone(keys) == Len(keys) = 0

BatchLoadDropUnprocessed(remaining, unprocessed) == remaining

BatchLoadRetryUnprocessed(remaining, unprocessed) == remaining \o unprocessed

BatchSaveRetryUnprocessed(remaining, unprocessed) == remaining \o unprocessed

\* the table-name check of the first loop: tableName stays "" until the
\* first item that names a table, and every later item must name the same
\* one; errAt is the index of the first item that does not (0 if none)
TableScan(tables) ==
    LET named == {i \in 1..Len(tables) : tables[i] # ""}
    IN  IF named = {} THEN [tableName |-> "", errAt |-> 0]
        ELSE LET first == CHOOSE i \in named : \A j \in named : i <= j
                 other == {i \in first..Len(tables) : tables[i] # tables[first]}
             IN  [tableName |-> tables[first],
                  errAt |-> IF other = {} THEN 0
                            ELSE CHOOSE i \in other : \A j \in other : i <= j]

\* numbers of items of the calls of the model
BatchSizes == {0, 1, 2, 3, 26, 101}

\* the items the store may leave unprocessed
ThrottleIds == {1, 2, 26}

\* how often a bounded store leaves items unprocessed in one call
MaxThrottle == 2

\* how often the callback "refill" puts the whole input back
MaxRefills == 1

\* the items for which the itemCallback of the caller returns an error
RejectedItems == {{}, {2}}

\* for _, item := range output.Responses[tableName] { itemCallback(item) }:
\* the callback is called on every item of the response, in order, and what
\* it returns is dropped; cbErr: it has returned an error, cbAfterErr: it
\* was called again after that
ItemCallbacks(b, responses) ==
    [b EXCEPT
       !.cbErr = @ \/ \E i \in 1..Len(responses) : responses[i] \in b.rejected,
       !.cbAfterErr = \/ @
                      \/ b.cbErr /\ Len(responses) > 0
                      \/ \E i, j \in 1..Len(responses) :
                            i < j /\ responses[i] \in b.rejected]

TablePatterns(n) ==
    {[i \in 1..n |-> "t"]}
        \cup (IF n >= 2 THEN {[i \in 1..n |-> IF i = 2 THEN "u" ELSE "t"],
                              [i \in 1..n |-> IF i = 1 THEN "" ELSE "t"]}
              ELSE {})

InitBatch ==
    /\ queue = QueueIdle
    /\ wrap = WrapIdle
    /\ expr = ExprIdle
    /\ batch \in {[op |-> op, policy |-> policy, mode |-> mode, faulty |-> faulty,
                   items |-> [i \in 1..n |-> i], tables |-> tables,
                   rejected |-> rej, cbErr |-> FALSE, cbAfterErr |-> FALSE,
                   callAfterCbErr |-> FALSE,
                   pc |-> "start", keys |-> <<>>, tableName |-> "",
                   called |-> FALSE, tick |-> 0, prevKeys |-> <<>>, lastChunk |-> <<>>,
                   lastUnprocessed |-> <<>>, sent |-> {}, processed |-> {},
                   throttled |-> 0, refills |-> 0] :
                      op \in {"load", "save"},
                      policy \in {"retry", "drop", "refill"},
                      mode \in {"bounded", "persistent"},
                      faulty \in BOOLEAN,
                      n \in BatchSizes,
                      tables \in UNION {TablePatterns(m) : m \in BatchSizes},
                      rej \in RejectedItems}
    /\ Len(batch.tables) = Len(batch.items)
    /\ batch.op = "save" => batch.rejected = {}
    /\ versionKind = "int"
    /\ keyFromTags = TRUE
    /\ stored = <<>>
    /\ w = <<>>
    /\ tok = TokIdle
    /\ build = BuildIdle
    /\ call = CallIdle

\* the first loop of BatchLoad / BatchSave: keys and table name
BatchStart ==
    /\ batch.pc = "start"
    /\ LET scan == TableScan(batch.tables)
       IN  IF scan.errAt # 0
           THEN batch' = [batch EXCEPT !.pc = "failed"]
           ELSE batch' = [batch EXCEPT !.pc = "loop", !.keys = batch.items,
                                       !.tableName = scan.tableName]
    /\ UNCHANGED <<mapperVars, tok, build, call, queue, wrap, expr>>

\* the loop ends and the function returns nil
BatchReturn ==
    /\ batch.pc = "loop"
    /\ LoopDone(batch.keys)
    /\ batch' = [batch EXCEPT !.pc = "done"]
    /\ UNCHANGED <<mapperVars, tok, build, call, queue, wrap, expr>>

\* the callback of the caller
Continuation(remaining, unprocessed) ==
    CASE batch.policy = "retry" ->
            IF batch.op = "load" THEN BatchLoadRetryUnprocessed(remaining, unprocessed)
            ELSE BatchSaveRetryUnprocessed(remaining, unprocessed)
      [] batch.policy = "drop" -> remaining
      [] batch.policy = "refill" ->
            IF batch.refills < MaxRefills THEN batch.items \o remaining ELSE remaining

\* one pass of the loop whose store call returns an error
BatchCallFails ==
    /\ batch.pc = "loop"
    /\ ~LoopDone(batch.keys)
    /\ batch.faulty
    /\ LET n == ChunkSize(batch.op, Len(batch.keys))
       IN  batch' = [batch EXCEPT !.pc = "failed", !.called = TRUE, !.tick = 1 - @,
                                  !.callAfterCbErr = @ \/ batch.cbErr,
                                  !.prevKeys = batch.keys,
                                  !.lastChunk = Chunk(batch.keys, n),
                                  !.lastUnprocessed = <<>>,
                                  !.sent = @ \cup {batch.keys[i] : i \in 1..n}]
    /\ UNCHANGED <<mapperVars, tok, build, call, queue, wrap, expr>>

\* one pass of the loop: BatchGetItem / BatchWriteItem of the first n keys,
\* then the callback on the rest and on what the store left unprocessed
BatchCall ==
    /\ batch.pc = "loop"
    /\ ~LoopDone(batch.keys)
    /\ LET n == ChunkSize(batch.op, Len(batch.keys))
           chunk == Chunk(batch.keys, n)
           sent == {chunk[i] : i \in 1..Len(chunk)}
       IN  \E U \in SUBSET (sent \cap ThrottleIds) :
             /\ U # {} => (batch.mode = "persistent" \/ batch.throttled < MaxThrottle)
             /\ LET unprocessed == SelectSeq(chunk, LAMBDA k : k \in U)
                    responses == IF batch.op = "load"
                                 THEN SelectSeq(chunk, LAMBDA k : k \notin U)
                                 ELSE <<>>
                IN  batch' = [ItemCallbacks(batch, responses) EXCEPT
                       !.called = TRUE, !.tick = 1 - @,
                       !.callAfterCbErr = @ \/ batch.cbErr,
                       !.prevKeys = batch.keys,
                       !.lastChunk = chunk,
                       !.lastUnprocessed = unprocessed,
                       !.sent = @ \cup sent,
                       !.processed = @ \cup (sent \ U),
                       !.throttled = IF U # {} /\ batch.mode = "bounded" THEN @ + 1 ELSE @,
                       !.refills = IF batch.policy = "refill" /\ @ < MaxRefills
                                   THEN @ + 1 ELSE @,
                       !.keys = Continuation(Remaining(batch.keys, n), unprocessed)]
    /\ UNCHANGED <<mapperVars, tok, build, call, queue, wrap, expr>>

NextBatch ==
    \/ BatchStart
    \/ BatchReturn
    \/ BatchCallFails
    \/ BatchCall

SpecBatch == InitBatch /\ [][NextBatch]_vars

\* the loop is sequential code: it goes on whenever the store call returns
SpecBatchLive == SpecBatch /\ WF_vars(NextBatch)

----------------------------------------------------------------------------
(* Claims about the batch engine *)

Items == {batch.items[i] : i \in 1..Len(batch.items)}

WorkList == {batch.keys[i] : i \in 1..Len(batch.keys)}

\* C8: whatever list the callback returns, every BatchGetItem call of
\* BatchLoad carries between 1 and 100 keys and every BatchWriteItem call of
\* BatchSave between 1 and 25 write requests.
C8_ChunkWithinCeiling ==
    batch.op # "none" /\ batch.called =>
        /\ Len(batch.lastChunk) >= 1
        /\ batch.op = "load" => Len(batch.lastChunk) <= 100
        /\ batch.op = "save" => Len(batch.lastChunk) <= 25

\* C8 witness: the callback returned a list longer than the input and than
\* the ceiling, and the next call carried exactly the ceiling.
C8_Witness ==
    /\ batch.op # "none" /\ batch.called
    /\ batch.policy = "refill"
    /\ Len(batch.prevKeys) > Len(batch.items)
    /\ Len(batch.prevKeys) > Ceiling(batch.op)
    /\ Len(batch.lastChunk) = Ceiling(batch.op)

\* C9: with the default policy, at every pass of the loop each input item
\* has been processed by the store or is still in the work list; the work
\* list is the items not yet sent, in their original order, followed by the
\* unprocessed ones; when the function returns nil every input item has
\* been processed.
C9_DefaultPolicyKeepsItems ==
    batch.op # "none" /\ batch.policy = "retry" /\ batch.pc \in {"loop", "done"} =>
        LET unsent == SelectSeq(batch.items, LAMBDA k : k \notin batch.sent)
        IN  /\ \A k \in Items : k \in batch.processed \/ k \in WorkList
            /\ Len(batch.keys) >= Len(unsent)
            /\ SubSeq(batch.keys, 1, Len(unsent)) = unsent
            /\ \A i \in (Len(unsent) + 1)..Len(batch.keys) :
                    batch.keys[i] \in batch.sent \ batch.processed
            /\ batch.called =>
                   batch.keys = SubSeq(batch.prevKeys, Len(batch.lastChunk) + 1,
                                       Len(batch.prevKeys)) \o batch.lastUnprocessed
            /\ batch.pc = "done" => batch.processed = Items

\* C9 witness: a pass of the loop left items not yet sent and items that the
\* store returned unprocessed.
C9_Witness ==
    /\ batch.op # "none" /\ batch.policy = "retry" /\ batch.pc = "loop"
    /\ batch.called
    /\ batch.lastUnprocessed # <<>>
    /\ Len(batch.keys) > Len(batch.lastUnprocessed)
    /\ Items \ batch.sent # {}

DefaultPolicy == batch.op # "none" /\ batch.policy = "retry"

\* C10: with the default policy and a store that in the end processes what
\* it is sent, the loop ends and the function returns nil; no store call is
\* made with an empty work list; the loop goes on forever only if the store
\* returns unprocessed items again and again.
C10_TerminatesWhenStoreProcesses ==
    /\ (DefaultPolicy /\ batch.pc = "loop" /\ batch.mode = "bounded" /\ ~batch.faulty)
           ~> (batch.pc = "done")
    /\ [][batch.op # "none" /\ LoopDone(batch.keys) => batch'.tick = batch.tick]_vars
    /\ []<>(DefaultPolicy => (batch.pc # "loop" \/ batch.lastUnprocessed # <<>>))

\* C10 witness: the function returned nil after the store had left items
\* unprocessed and these had been sent again.
C10_Witness ==
    /\ DefaultPolicy /\ batch.mode = "bounded" /\ ~batch.faulty
    /\ batch.pc = "done"
    /\ batch.throttled >= 1
    /\ batch.processed = Items

MixedTables == \E i, j \in 1..Len(batch.tables) : batch.tables[i] # batch.tables[j]

\* C11: if two records of one BatchLoad or BatchSave call report different
\* table names, the call returns an error and makes no store call.
C11_MixedTablesRejected ==
    batch.op # "none" /\ MixedTables =>
        /\ batch.pc \in {"start", "failed"}
        /\ ~batch.called

\* C25: once the item callback of BatchLoad has returned an error, BatchLoad
\* has returned with an error: the callback is called on no further item and
\* the store is not called again.
C25_ItemCallbackErrorStops ==
    batch.op = "load" /\ batch.cbErr =>
        /\ batch.pc = "failed"
        /\ ~batch.cbAfterErr
        /\ ~batch.callAfterCbErr

----------------------------------------------------------------------------
(* New: the record type T and the mapper built from its tags.  Tagged       *)
(* fields are exported and of a type that their role accepts.              *)

Roles == {"hashkey", "sortkey", "version", "createdTime", "modifiedTime"}

\* most fields of one role in the types of the model
MaxTagged == 2

\* the types T: how many fields carry each role tag, the interfaces T
\* implements, and the MapOpts
Types ==
    [n : [Roles -> 0..MaxTagged],
     HasKey : BOOLEAN, HasVersion : BOOLEAN, HasTimestamps : BOOLEAN,
     MustHaveVersion : BOOLEAN, MustHaveTimestamps : BOOLEAN]

\* the hash key and sort key switch
NewKey(t) ==
    IF t.HasKey THEN [err |-> "none", getKey |-> "iface"]
    ELSE LET x == t.n["hashkey"]
             y == t.n["sortkey"]
         IN  CASE x = 1 /\ y = 1 -> [err |-> "none", getKey |-> "hash+sort"]
               [] x = 1 /\ y # 1 -> [err |-> "none", getKey |-> "hash"]
               [] x > 1 -> [err |-> "multiple hashkey", getKey |-> "nil"]
               [] x = 0 /\ y > 1 -> [err |-> "multiple sortkey", getKey |-> "nil"]
               [] OTHER -> [err |-> "no hashkey", getKey |-> "nil"]

\* the version switch: putVersion, updateVersion and deleteVersion
NewVersion(t) ==
    IF t.HasVersion THEN [err |-> "none", version |-> "iface"]
    ELSE LET n == t.n["version"]
         IN  CASE n = 1 -> [err |-> "none", version |-> "tags"]
               [] n > 1 -> [err |-> "multiple version", version |-> "nil"]
               [] OTHER -> IF t.MustHaveVersion
                           THEN [err |-> "no version", version |-> "nil"]
                           ELSE [err |-> "none", version |-> "nil"]

\* the timestamp switch: putTimestamps and updateTimestamps
NewTimestamps(t) ==
    IF t.HasTimestamps
    THEN [err |-> "none", putTimestamps |-> "iface", updateTimestamps |-> "iface"]
    ELSE LET x == t.n["createdTime"]
             y == t.n["modifiedTime"]
         IN  CASE x > 1 -> [err |-> "multiple createdTime",
                            putTimestamps |-> "nil", updateTimestamps |-> "nil"]
               [] x <= 1 /\ y > 1 -> [err |-> "multiple modifiedTime",
                                      putTimestamps |-> "nil", updateTimestamps |-> "nil"]
               [] x = 0 /\ y = 0 ->
                     [err |-> IF t.MustHaveTimestamps THEN "no timestamps" ELSE "none",
                      putTimestamps |-> "nil", updateTimestamps |-> "nil"]
               [] OTHER -> [err |-> "none", putTimestamps |-> "tags",
                            updateTimestamps |-> IF y = 1 THEN "tags" ELSE "nil"]

NewFailed(err) ==
    [err |-> err, getKey |-> "nil", version |-> "nil",
     putTimestamps |-> "nil", updateTimestamps |-> "nil"]

\* New[T]: the first error of the three switches, or the mapper
New(t) ==
    IF NewKey(t).err # "none" THEN NewFailed(NewKey(t).err)
    ELSE IF NewVersion(t).err # "none" THEN NewFailed(NewVersion(t).err)
    ELSE IF NewTimestamps(t).err # "none" THEN NewFailed(NewTimestamps(t).err)
    ELSE [err |-> "none", getKey |-> NewKey(t).getKey,
          version |-> NewVersion(t).version,
          putTimestamps |-> NewTimestamps(t).putTimestamps,
          updateTimestamps |-> NewTimestamps(t).updateTimestamps]

\* the fields of T: a field is <<role, k>>, the k-th field tagged with the
\* role, and T has one more field, tagged with a name only
FieldsOf(t) ==
    {f \in Roles \X (1..MaxTagged) : f[2] <= t.n[f[1]]} \cup {<<"data", 1>>}

\* attribute.name: tags[0] of the field's dynamodbav tag
AttributeName ==
    [hashkey |-> <<"id", "id2", "id3">>, sortkey |-> <<"range", "range2", "range3">>,
     version |-> <<"version", "version2", "version3">>,
     createdTime |-> <<"created", "created2", "created3">>,
     modifiedTime |-> <<"modified", "modified2", "modified3">>, data |-> <<"data">>]

\* parseType of the field: hash keys are strings, the other tagged fields
\* numbers, the untagged one a string
FieldType(f) == IF f[1] \in {"hashkey", "data"} THEN "S" ELSE "N"

RoleIndex ==
    [hashkey |-> 1, sortkey |-> 2, version |-> 3, createdTime |-> 4,
     modifiedTime |-> 5, data |-> 6]

\* attribute.get: the value of field f in the record of the call; the two
\* records of the model differ in every field, and the fields of one record
\* from each other
FieldValue(rec, f) ==
    IF FieldType(f) = "S"
    THEN <<DigitChars[RoleIndex[f[1]] + 1], DigitChars[f[2] + 1], DigitChars[rec + 1]>>
    ELSE 100 * RoleIndex[f[1]] + 10 * f[2] + rec

\* m.encoder.Encode(v.Interface())
EncoderEncode(type, v) == IF type = "S" THEN AvS(v) ELSE AvN(FormatInt(v))

\* Mapper.MarshalMap of the whole record
MarshalRecord(t, rec) ==
    [name \in {AttributeName[f[1]][f[2]] : f \in FieldsOf(t)} |->
        LET f == CHOOSE g \in FieldsOf(t) : AttributeName[g[1]][g[2]] = name
        IN  EncoderEncode(FieldType(f), FieldValue(rec, f))]

getKeyWholeItem(m, t, rec) == MarshalRecord(t, rec)

\* m.getKey as New builds it from the tags: hashKeys[0] and sortKeys[0]
getKey(m, t, rec) ==
    LET hashKey == <<"hashkey", 1>>
        sortKey == <<"sortkey", 1>>
        hashAv == EncoderEncode(FieldType(hashKey), FieldValue(rec, hashKey))
        sortAv == EncoderEncode(FieldType(sortKey), FieldValue(rec, sortKey))
    IN  IF m.getKey = "hash+sort"
        THEN (AttributeName.hashkey[1] :> hashAv) @@ (AttributeName.sortkey[1] :> sortAv)
        ELSE (AttributeName.hashkey[1] :> hashAv)

\* the records of the calls of the model
Records == {1, 2}

InitBuild ==
    /\ queue = QueueIdle
    /\ wrap = WrapIdle
    /\ expr = ExprIdle
    /\ build \in {[pc |-> "start", typ |-> t, m |-> NewFailed("none"),
                   keyed |-> FALSE, rec |-> 0, key |-> <<>>] : t \in Types}
    /\ versionKind = "int"
    /\ keyFromTags = TRUE
    /\ stored = <<>>
    /\ w = <<>>
    /\ tok = TokIdle
    /\ batch = BatchIdle
    /\ call = CallIdle

\* mapper.New[T](client, tableName, optFns...)
NewMapper ==
    /\ build.pc = "start"
    /\ build' = [build EXCEPT !.pc = "done", !.m = New(build.typ)]
    /\ UNCHANGED <<mapperVars, tok, batch, call, queue, wrap, expr>>

\* a call of m.getKey(item, value) on a mapper that New returned; the
\* GetKey method of a type that implements HasKey is code of the caller
GetKey ==
    /\ build.pc = "done"
    /\ build.m.err = "none"
    /\ ~build.keyed
    /\ \E rec \in Records :
         \E key \in IF build.m.getKey = "iface"
                     THEN {<<>>, MarshalRecord(build.typ, rec)}
                     ELSE {getKey(build.m, build.typ, rec)} :
            build' = [build EXCEPT !.keyed = TRUE, !.rec = rec, !.key = key]
    /\ UNCHANGED <<mapperVars, tok, batch, call, queue, wrap, expr>>

NextBuild == NewMapper \/ GetKey

SpecBuild == InitBuild /\ [][NextBuild]_vars

\* C16: New fails with an error for a type in which two or more fields carry
\* the same role tag, for each of the five roles and whatever the other
\* fields of the type are.
C16_DuplicateRoleRejected ==
    (build.pc = "done" /\ \E r \in Roles : build.typ.n[r] >= 2) => build.m.err # "none"

\* C21: for a type with one hashkey field and no sortkey field the key has
\* exactly one entry, named by the hashkey tag and holding the encoded value
\* of that field; with one hashkey and one sortkey field it has exactly
\* these two entries; no other attribute of the record is in the key.
C21_KeyHasOnlyKeyFields ==
    (build.pc = "done" /\ build.keyed /\ ~build.typ.HasKey) =>
        /\ build.typ.n["hashkey"] = 1
        /\ build.key["id"] = AvS(FieldValue(build.rec, <<"hashkey", 1>>))
        /\ build.typ.n["sortkey"] = 0 => DOMAIN build.key = {"id"}
        /\ build.typ.n["sortkey"] = 1 =>
              /\ DOMAIN build.key = {"id", "range"}
              /\ build.key["range"] =
                    AvN(FormatInt(FieldValue(build.rec, <<"sortkey", 1>>)))

C21_Witness ==
    /\ build.pc = "done" /\ build.keyed /\ ~build.typ.HasKey
    /\ build.typ.n["hashkey"] = 1 /\ build.typ.n["sortkey"] = 1
    /\ build.typ.n["version"] = 1 /\ build.typ.n["createdTime"] = 1
    /\ build.rec = 2
    /\ DOMAIN build.key = {"id", "range"}

----------------------------------------------------------------------------
(* One call of Put, Update, Delete or Get.  Times are seconds since the     *)
(* epoch, 0 standing for the zero time.Time; the fields of T tagged         *)
(* createdTime and modifiedTime share the unixtime option.                  *)

createdTimeAttr == "created"
modifiedTimeAttr == "modified"

AlwaysZero(t) == TRUE

\* reflect.Value.IsZero of a time field
IsZero(t) == t = 0

\* the attribute value of a time: N of Unix seconds under unixtime, S in
\* RFC 3339 otherwise
MarshalTime(t, unixtime) ==
    IF unixtime
    THEN AvN(IF t = 0
             THEN <<"-", "6", "2", "1", "3", "5", "5", "9", "6", "8", "0", "0">>
             ELSE FormatInt(t))
    ELSE AvS(IF t = 0
             THEN <<"0", "0", "0", "1", "-", "0", "1", "-", "0", "1", "T",
                    "0", "0", ":", "0", "0", ":", "0", "0", "Z">>
             ELSE <<"1", "9", "7", "0", "-", "0", "1", "-", "0", "1", "T",
                    "0", "0", ":", "0", "0", ":", "0">> \o FormatInt(t) \o <<"Z">>)

\* putTimestamps built from tags: each field gets the clock only if zero
putTimestamps(c, item) ==
    LET av == MarshalTime(c.now, c.m.unixtime)
        withCreated == IF c.m.created /\ IsZero(c.rec.created)
                       THEN (createdTimeAttr :> av) @@ item ELSE item
    IN  IF c.m.modified /\ IsZero(c.rec.modified)
        THEN (modifiedTimeAttr :> av) @@ withCreated ELSE withCreated

updateTimestampsBoth(c, update) ==
    update \o <<SetValue(createdTimeAttr, MarshalTime(c.now, c.m.unixtime)),
                SetValue(modifiedTimeAttr, MarshalTime(c.now, c.m.unixtime))>>

\* updateTimestamps built from tags: SET of the modifiedTime attribute
updateTimestamps(c, update) ==
    Append(update, SetValue(modifiedTimeAttr, MarshalTime(c.now, c.m.unixtime)))

deleteVersionAsPut(rec) == putVersion(rec, <<>>).cond

\* deleteVersion built from tags
deleteVersion(rec) == Equal(versionAttributeName, EncodeVersion(rec.version))

\* a Finalizer of the caller: it asks for the old values
Finalizer(input) == [input EXCEPT !.ReturnValues = "ALL_OLD"]

NeverNoItem(item) == FALSE

\* len(output.Item) == 0
NoItem(item) == Cardinality(DOMAIN item) = 0

\* readings of the mapper's clock and values of a time field set before
Clock == {5, 7}

PresetTime == 3

InitCall ==
    /\ queue = QueueIdle
    /\ wrap = WrapIdle
    /\ expr = ExprIdle
    /\ call \in
         {[op |-> op, m |-> m, rec |-> rec, now |-> now,
           locking |-> lk, timestamps |-> ts, Condition |-> cond, finalizer |-> fin,
           tableOverride |-> FALSE,
           pc |-> "start", input |-> NoInput, composed |-> NoInput, sent |-> NoInput,
           finalizerCalls |-> 0, err |-> "none",
           output |-> [err |-> FALSE, Item |-> <<>>], got |-> <<>>] :
              op \in {"put", "update", "delete"},
              m \in [version : {"tags", "nil"}, created : BOOLEAN,
                     modified : BOOLEAN, unixtime : BOOLEAN],
              rec \in [id : {<<"k">>}, version : {0, 1}, data : {<<"d">>},
                       created : {0, PresetTime}, modified : {0, PresetTime}],
              now \in Clock, lk \in BOOLEAN, ts \in BOOLEAN,
              cond \in {NilCond, Equal(dataAttr, AvS(<<"x">>))}, fin \in BOOLEAN}
         \cup
         {[op |-> op, m |-> [version |-> "tags", created |-> FALSE,
                             modified |-> FALSE, unixtime |-> FALSE],
           rec |-> [id |-> <<"k">>, version |-> 0, data |-> <<"d">>,
                    created |-> 0, modified |-> 0],
           now |-> 5, locking |-> FALSE, timestamps |-> FALSE, Condition |-> NilCond,
           finalizer |-> FALSE, tableOverride |-> tbl,
           pc |-> "start", input |-> NoInput, composed |-> NoInput, sent |-> NoInput,
           finalizerCalls |-> 0, err |-> "none",
           output |-> [err |-> FALSE, Item |-> <<>>], got |-> <<>>] :
              op \in {"get", "tableget"}, tbl \in BOOLEAN}
    /\ call.m.created \/ call.rec.created = 0
    /\ call.m.modified \/ call.rec.modified = 0
    /\ versionKind = "int"
    /\ keyFromTags \in BOOLEAN
    /\ stored = <<>>
    /\ w = <<>>
    /\ tok = TokIdle
    /\ batch = BatchIdle
    /\ build = BuildIdle

\* how a call ends before the store is called
Failed(err) == [call EXCEPT !.pc = "done", !.err = err]

\* Mapper.Put up to the Finalizer
ComposePut ==
    /\ call.op = "put" /\ call.pc = "start"
    /\ LET mav == (IF call.m.created
                   THEN (createdTimeAttr :> MarshalTime(call.rec.created, call.m.unixtime))
                   ELSE <<>>)
                  @@ (IF call.m.modified
                      THEN (modifiedTimeAttr :> MarshalTime(call.rec.modified, call.m.unixtime))
                      ELSE <<>>)
                  @@ MarshalMap(call.rec)
           versioned == IF call.locking THEN putVersion(call.rec, mav).item ELSE mav
           cond == IF call.locking
                   THEN And(call.Condition, putVersion(call.rec, mav).cond)
                   ELSE call.Condition
           in == [kind |-> "put", TableName |-> "table",
                  Item |-> IF call.timestamps THEN putTimestamps(call, versioned)
                           ELSE versioned,
                  Condition |-> cond, ReturnValues |-> "NONE"]
       IN  call' = IF call.locking /\ call.m.version = "nil" THEN Failed("locking")
                   ELSE IF call.timestamps /\ ~(call.m.created \/ call.m.modified)
                        THEN Failed("timestamps")
                   ELSE IF ~CondBuilds(cond) THEN Failed("build")
                   ELSE [call EXCEPT !.pc = "composed", !.input = in, !.composed = in]
    /\ UNCHANGED <<mapperVars, tok, batch, build, queue, wrap, expr>>

\* Mapper.Update up to the store call
ComposeUpdate ==
    /\ call.op = "update" /\ call.pc = "start"
    /\ LET required == <<SetValue(dataAttr, AvS(call.rec.data))>>
           versioned == IF call.locking THEN updateVersion(call.rec, required).update
                        ELSE required
           cond == IF call.locking
                   THEN And(call.Condition, updateVersion(call.rec, required).cond)
                   ELSE call.Condition
           in == [kind |-> "update", TableName |-> "table",
                  Key |-> (hashKeyAttr :> AvS(call.rec.id)),
                  Update |-> IF call.timestamps THEN updateTimestamps(call, versioned)
                             ELSE versioned,
                  Condition |-> cond, ReturnValues |-> "NONE"]
       IN  call' = IF call.locking /\ call.m.version = "nil" THEN Failed("locking")
                   ELSE IF call.timestamps /\ ~call.m.modified THEN Failed("timestamps")
                   ELSE IF ~CondBuilds(cond) THEN Failed("build")
                   ELSE [call EXCEPT !.pc = "ready", !.input = in, !.composed = in]
    /\ UNCHANGED <<mapperVars, tok, batch, build, queue, wrap, expr>>

\* Mapper.Delete up to the Finalizer
ComposeDelete ==
    /\ call.op = "delete" /\ call.pc = "start"
    /\ LET cond == IF call.locking THEN And(call.Condition, deleteVersion(call.rec))
                   ELSE call.Condition
           in == [kind |-> "delete", TableName |-> "table",
                  Key |-> (hashKeyAttr :> AvS(call.rec.id)),
                  Condition |-> cond, ReturnValues |-> "NONE"]
       IN  call' = IF call.locking /\ call.m.version = "nil" THEN Failed("locking")
                   ELSE IF ~CondBuilds(cond) THEN Failed("build")
                   ELSE [call EXCEPT !.pc = "composed", !.input = in, !.composed = in]
    /\ UNCHANGED <<mapperVars, tok, batch, build, queue, wrap, expr>>

\* if opts.Finalizer != nil { opts.Finalizer(opts.Input) } of Put and Delete
Finalize ==
    /\ call.op \in {"put", "delete"} /\ call.pc = "composed"
    /\ call' = IF call.finalizer
               THEN [call EXCEPT !.pc = "ready", !.input = Finalizer(call.input),
                                 !.finalizerCalls = @ + 1]
               ELSE [call EXCEPT !.pc = "ready"]
    /\ UNCHANGED <<mapperVars, tok, batch, build, queue, wrap, expr>>

\* m.client.PutItem / UpdateItem / DeleteItem (ctx, opts.Input)
Dispatch ==
    /\ call.op \in {"put", "update", "delete"} /\ call.pc = "ready"
    /\ call' = [call EXCEPT !.pc = "done", !.sent = call.input]
    /\ UNCHANGED <<mapperVars, tok, batch, build, queue, wrap, expr>>

\* what GetItem may return: an error, no item, an item, an item that does
\* not decode into T
GetOutputs ==
    {[err |-> TRUE, Item |-> <<>>], [err |-> FALSE, Item |-> <<>>],
     [err |-> FALSE, Item |-> StoredItem(1)],
     [err |-> FALSE, Item |-> (versionAttributeName :> AvS(<<"x">>))]}

\* Decoder.Decode fails: the version attribute is not a number
Undecodable(item) ==
    versionAttributeName \in DOMAIN item /\ item[versionAttributeName].t # "N"

\* Mapper.Get; got is <<>> for a nil item
Get ==
    /\ call.op = "get" /\ call.pc = "start"
    /\ \E output \in GetOutputs :
         LET in == [kind |-> "get",
                    TableName |-> IF call.tableOverride THEN "other" ELSE "table",
                    Key |-> (hashKeyAttr :> AvS(call.rec.id)), ReturnValues |-> "NONE"]
         IN  call' = [call EXCEPT
                 !.pc = "done", !.input = in, !.composed = in, !.sent = in,
                 !.output = output,
                 !.err = IF output.err THEN "store"
                         ELSE IF NoItem(output.Item) THEN "none"
                         ELSE IF Undecodable(output.Item) THEN "decode"
                         ELSE "none",
                 !.got = IF output.err \/ NoItem(output.Item) THEN <<>>
                         ELSE IF Undecodable(output.Item) THEN <<>>
                         ELSE <<output.Item>>]
    /\ UNCHANGED <<mapperVars, tok, batch, build, queue, wrap, expr>>

\* Table.Get of ddb/v2: the request sent is a new, empty GetItemInput
TableGet ==
    /\ call.op = "tableget" /\ call.pc = "start"
    /\ \E output \in GetOutputs :
         LET in == [kind |-> "get",
                    TableName |-> IF call.tableOverride THEN "other" ELSE "table",
                    Key |-> (hashKeyAttr :> AvS(call.rec.id)), ReturnValues |-> "NONE"]
         IN  call' = [call EXCEPT
                 !.pc = "done", !.input = in, !.composed = in,
                 !.sent = [kind |-> "get", TableName |-> "nil", Key |-> <<>>,
                           ReturnValues |-> "NONE"],
                 !.output = output,
                 !.err = IF output.err THEN "store"
                         ELSE IF Undecodable(output.Item) THEN "decode"
                         ELSE "none",
                 !.got = IF output.err THEN <<>> ELSE <<output.Item>>]
    /\ UNCHANGED <<mapperVars, tok, batch, build, queue, wrap, expr>>

NextCall ==
    \/ ComposePut
    \/ ComposeUpdate
    \/ ComposeDelete
    \/ Finalize
    \/ Dispatch
    \/ Get
    \/ TableGet

SpecCall == InitCall /\ [][NextCall]_vars

----------------------------------------------------------------------------
(* Claims about one call *)

\* the call has written its expressions into the request
Composed(op) ==
    call.op = op /\ call.err = "none" /\ call.pc \in {"composed", "ready", "done"}

\* C12: every Put and every Update with timestamp automation enabled, on a
\* type with a modifiedTime field, writes the modified attribute with the
\* reading of the clock, whatever the field holds in the record.
C12_ModifiedFromClock ==
    /\ (Composed("put") /\ call.timestamps /\ call.m.modified) =>
           call.composed.Item[modifiedTimeAttr] = MarshalTime(call.now, call.m.unixtime)
    /\ (Composed("update") /\ call.timestamps /\ call.m.modified) =>
           \E k \in 1..Len(call.composed.Update) :
               call.composed.Update[k] =
                   SetValue(modifiedTimeAttr, MarshalTime(call.now, call.m.unixtime))

\* C13: a Put with timestamp automation writes the clock's time as created
\* timestamp if the record's field is zero, and the record's own value
\* otherwise.
C13_CreatedKept ==
    (Composed("put") /\ call.timestamps /\ call.m.created) =>
        call.composed.Item[createdTimeAttr] =
            MarshalTime(IF call.rec.created = 0 THEN call.now ELSE call.rec.created,
                        call.m.unixtime)

\* C13 witness: a Put was sent for a record whose created time was set
\* before, another field being filled from the clock.
C13_Witness ==
    /\ Composed("put") /\ call.pc = "done"
    /\ call.timestamps /\ call.m.created /\ call.m.modified
    /\ call.rec.created = PresetTime /\ call.rec.modified = 0
    /\ call.sent.Item[createdTimeAttr] # call.sent.Item[modifiedTimeAttr]

\* C14: Update generates no action on the created attribute; its only
\* timestamp action is one SET of the modified attribute, by name, to the
\* clock's time in the field's encoding.
C14_UpdateLeavesCreated ==
    Composed("update") =>
        LET u == call.composed.Update
            stamps == {k \in 1..Len(u) : u[k].name = modifiedTimeAttr}
        IN  /\ \A k \in 1..Len(u) : u[k].name # createdTimeAttr
            /\ ~call.timestamps => stamps = {}
            /\ call.timestamps =>
                  /\ stamps = {Len(u)}
                  /\ u[Len(u)] = SetValue(modifiedTimeAttr,
                                          MarshalTime(call.now, call.m.unixtime))

\* C14 witness: an Update with timestamps was sent for a type that has both
\* time fields, in the epoch-number encoding.
C14_Witness ==
    /\ Composed("update") /\ call.pc = "done"
    /\ call.timestamps /\ call.m.created /\ call.m.modified /\ call.m.unixtime
    /\ call.sent.Update[Len(call.sent.Update)].value.t = "N"

\* C15: for Put, Update and Delete a Finalizer of the caller is called
\* exactly once on the composed request, after the expressions are written
\* and before the store call, and the request sent is the one it left.
C15_FinalizerOnce ==
    (call.op \in {"put", "update", "delete"} /\ call.pc = "done"
        /\ call.err = "none" /\ call.finalizer) =>
        /\ call.finalizerCalls = 1
        /\ call.sent = Finalizer(call.composed)

\* the version condition that the tags of T give a record
ExpectedVersionCondition(op, rec) ==
    IF op # "delete" /\ rec.version = 0 THEN AttributeNotExists(hashKeyName)
    ELSE Equal(versionAttributeName, AvN(FormatInt(rec.version)))

\* C17: for Put, Update and Delete, with a version condition and a
\* condition of the caller, the condition sent is the conjunction of both.
C17_ConditionsConjoined ==
    \A op \in {"put", "update", "delete"} :
        (Composed(op) /\ call.locking /\ call.Condition # NilCond) =>
            /\ call.composed.Condition =
                   CondAnd(call.Condition, ExpectedVersionCondition(op, call.rec))
            /\ call.pc = "done" => call.sent.Condition = call.composed.Condition

\* C17 witness: an Update was sent with the caller's condition and the
\* version equality.
C17_Witness ==
    /\ Composed("update") /\ call.pc = "done"
    /\ call.locking /\ call.Condition # NilCond /\ call.rec.version = 1
    /\ call.sent.Condition.op = "and"

\* C18: Delete with optimistic locking conditions on the version attribute
\* being equal to the record's version, also for version zero, and never on
\* attribute_not_exists.
C18_DeleteVersionEquality ==
    (Composed("delete") /\ call.locking) =>
        (IF call.Condition = NilCond THEN call.composed.Condition
         ELSE call.composed.Condition.right)
            = Equal(versionAttributeName, AvN(FormatInt(call.rec.version)))

\* C18 witness: a Delete of a record of version zero was sent.
C18_Witness ==
    /\ Composed("delete") /\ call.pc = "done"
    /\ call.locking /\ call.rec.version = 0 /\ call.Condition = NilCond
    /\ call.sent.Condition.op = "equal"

\* C19: Mapper.Get returns a nil item and a nil error when the store returns
\* an empty item, a nil item and the store's error when the call fails, and
\* a non-nil item only when the store returned a non-empty item.
C19_GetNoRecord ==
    (call.op = "get" /\ call.pc = "done") =>
        /\ call.output.err => call.got = <<>> /\ call.err = "store"
        /\ (~call.output.err /\ call.output.Item = <<>>) =>
               call.got = <<>> /\ call.err = "none"
        /\ call.got # <<>> => ~call.output.err /\ call.output.Item # <<>>

\* C19 witness: the store returned no item and Get returned nil, nil.
C19_Witness ==
    /\ call.op = "get" /\ call.pc = "done"
    /\ ~call.output.err /\ call.output.Item = <<>>
    /\ call.got = <<>> /\ call.err = "none"

\* C20: every Get sends the request it built: the mapper's table name and
\* the key of the argument, with the caller's options applied.
C20_GetSendsBuiltRequest ==
    (call.op \in {"get", "tableget"} /\ call.pc = "done") =>
        /\ call.sent = call.composed
        /\ call.sent.TableName = (IF call.tableOverride THEN "other" ELSE "table")
        /\ call.sent.Key = (hashKeyAttr :> AvS(call.rec.id))

----------------------------------------------------------------------------
(* queue.Queue: one producer goroutine calling Add / TryAdd, consumer      *)
(* goroutines calling Take / TryTake, and one goroutine calling Close.     *)
(* q.ch is unbuffered and never closed: a send in a select with a default  *)
(* succeeds only when a receiver is already parked on q.ch, and a receive  *)
(* in a select with a default only when a sender is parked on it.  Each    *)
(* section under q.mu is one step.  A program makes adds calls of Add or   *)
(* TryAdd and takes calls of Take or TryTake per consumer, then stops.     *)

\* most elements the producer of a program adds: 1, 2, ... in this order
MaxAdds == 3

\* most calls each consumer of a program makes
MaxTakes == 2

Consumers == {1, 2}

\* the zero value of T, returned with ok = false
ZeroT == 0

IdleConsumer ==
    [pc |-> "idle", op |-> "none", ctx |-> "none", cancelled |-> FALSE,
     v |-> ZeroT, ok |-> FALSE, calls |-> 0, sizeAtCall |-> 0, othersTaking |-> FALSE]

\* queue.New(), before any goroutine has called a method
InitQueue ==
    /\ versionKind = "int"
    /\ keyFromTags = TRUE
    /\ stored = <<>>
    /\ w = <<>>
    /\ tok = TokIdle
    /\ batch = BatchIdle
    /\ build = BuildIdle
    /\ call = CallIdle
    /\ wrap = WrapIdle
    /\ expr = ExprIdle
    /\ queue \in
         {[pc |-> "run", el |-> <<>>, closed |-> FALSE, closer |-> cl,
           adds |-> adds, takes |-> takes,
           prod |-> [pc |-> "idle", kind |-> "none", v |-> ZeroT, next |-> 1,
                     added |-> 0],
           cons |-> [c \in Consumers |-> IdleConsumer],
           taken |-> <<>>] :
              cl \in BOOLEAN, adds \in 1..MaxAdds, takes \in 1..MaxTakes}

\* the consumers parked in the select of Take, receiving from q.ch
Receivers == {c \in Consumers : queue.cons[c].pc = "parked"}

\* a call of a consumer returns (v, ok); an element obtained is logged
Return(c, v, ok) ==
    [queue.cons[c] EXCEPT !.pc = "idle", !.v = v, !.ok = ok, !.calls = @ + 1]

QueueOthersUnchanged ==
    UNCHANGED <<mapperVars, tok, batch, build, call, wrap, expr>>

\* Add / TryAdd up to the select: read q.closed under RLock; Add panics and
\* TryAdd returns false if the queue is closed
Add(kind) ==
    /\ queue.pc = "run"
    /\ queue.prod.pc = "idle"
    /\ queue.prod.next <= queue.adds
    /\ queue' = [queue EXCEPT
          !.prod = IF queue.closed
                   THEN [@ EXCEPT !.kind = kind,
                                  !.pc = IF kind = "Add" THEN "panicked" ELSE "closed"]
                   ELSE [@ EXCEPT !.kind = kind, !.pc = "select", !.v = queue.prod.next]]
    /\ QueueOthersUnchanged

\* select { case q.ch <- v: ... default: ... }: the send is taken iff a Take
\* is parked on q.ch, and hands v to it; otherwise the default branch
AddSelect ==
    /\ queue.pc = "run"
    /\ queue.prod.pc = "select"
    /\ IF Receivers # {}
       THEN \E c \in Receivers :
              queue' = [queue EXCEPT
                 !.cons[c] = Return(c, queue.prod.v, TRUE),
                 !.taken = Append(@, queue.prod.v),
                 !.prod = [@ EXCEPT !.pc = "idle", !.next = @ + 1, !.added = queue.prod.v]]
       ELSE queue' = [queue EXCEPT !.prod.pc = "append"]
    /\ QueueOthersUnchanged

\* default: q.mu.Lock(); q.el = append(q.el, v); q.mu.Unlock()
AddAppend ==
    /\ queue.pc = "run"
    /\ queue.prod.pc = "append"
    /\ queue' = [queue EXCEPT
          !.el = Append(@, queue.prod.v),
          !.prod = [@ EXCEPT !.pc = "idle", !.next = @ + 1, !.added = queue.prod.v]]
    /\ QueueOthersUnchanged

\* Take up to the select: under q.mu, pop the front of q.el if there is one;
\* with q.el empty, return false if the queue is closed
Take(c) ==
    /\ queue.pc = "run"
    /\ queue.cons[c].pc = "idle"
    /\ queue.cons[c].calls < queue.takes
    /\ \E ctx \in {"background", "cancellable"} :
         LET started == [queue.cons[c] EXCEPT !.op = "Take", !.ctx = ctx,
                                              !.cancelled = FALSE]
         IN  queue' =
               IF Len(queue.el) > 0
               THEN [queue EXCEPT
                       !.cons[c] = [Return(c, Head(queue.el), TRUE) EXCEPT
                                      !.op = "Take", !.ctx = ctx, !.cancelled = FALSE],
                       !.el = Tail(@),
                       !.taken = Append(@, Head(queue.el))]
               ELSE IF queue.closed
               THEN [queue EXCEPT
                       !.cons[c] = [Return(c, ZeroT, FALSE) EXCEPT
                                      !.op = "Take", !.ctx = ctx, !.cancelled = FALSE]]
               ELSE [queue EXCEPT !.cons[c] = [started EXCEPT !.pc = "unlocked"]]
    /\ QueueOthersUnchanged

\* the goroutine reaches select { case <-ctx.Done(): case v = <-q.ch: } and
\* parks on both channels
TakeSelect(c) ==
    /\ queue.pc = "run"
    /\ queue.cons[c].pc = "unlocked"
    /\ queue' = [queue EXCEPT !.cons[c].pc = "parked"]
    /\ QueueOthersUnchanged

\* the context of a pending Take is cancelled or times out
Cancel(c) ==
    /\ queue.pc = "run"
    /\ queue.cons[c].pc \in {"unlocked", "parked"}
    /\ queue.cons[c].ctx = "cancellable"
    /\ ~queue.cons[c].cancelled
    /\ queue' = [queue EXCEPT !.cons[c].cancelled = TRUE]
    /\ QueueOthersUnchanged

\* case <-ctx.Done(): return v, false
TakeDone(c) ==
    /\ queue.pc = "run"
    /\ queue.cons[c].pc = "parked"
    /\ queue.cons[c].cancelled
    /\ queue' = [queue EXCEPT !.cons[c] = Return(c, ZeroT, FALSE)]
    /\ QueueOthersUnchanged

\* TryTake: select { case v, ok = <-q.ch: default: }.  The receive is taken
\* only from a sender parked on q.ch; Add and TryAdd send inside a select
\* with a default and never park, so the default branch is taken and q.el
\* is not read
TryTake(c) ==
    /\ queue.pc = "run"
    /\ queue.cons[c].pc = "idle"
    /\ queue.cons[c].calls < queue.takes
    /\ queue' = [queue EXCEPT
          !.cons[c] = [Return(c, ZeroT, FALSE) EXCEPT
                         !.op = "TryTake", !.ctx = "none",
                         !.sizeAtCall = Len(queue.el),
                         !.othersTaking =
                            \E d \in Consumers \ {c} : queue.cons[d].pc # "idle"]]
    /\ QueueOthersUnchanged

\* Close: q.closed = true under q.mu
Close ==
    /\ queue.pc = "run"
    /\ queue.closer
    /\ ~queue.closed
    /\ queue' = [queue EXCEPT !.closed = TRUE]
    /\ QueueOthersUnchanged

NextQueue ==
    \/ \E kind \in {"Add", "TryAdd"} : Add(kind)
    \/ AddSelect
    \/ AddAppend
    \/ \E c \in Consumers : Take(c)
    \/ \E c \in Consumers : TakeSelect(c)
    \/ \E c \in Consumers : Cancel(c)
    \/ \E c \in Consumers : TakeDone(c)
    \/ \E c \in Consumers : TryTake(c)
    \/ Close

SpecQueue == InitQueue /\ [][NextQueue]_vars

\* every goroutine that can take a step eventually takes one
SpecQueueLive == SpecQueue /\ WF_vars(NextQueue)

----------------------------------------------------------------------------
(* Claims about the queue *)

\* C26: TryTake returns false only if the queue held no element at the time
\* of the call; with an element in the queue and no other consumer taking,
\* it returns the front element and true.
C26_TryTakeFalseOnlyWhenEmpty ==
    queue.pc = "run" =>
      \A c \in Consumers :
         (/\ queue.cons[c].op = "TryTake"
          /\ queue.cons[c].pc = "idle"
          /\ queue.cons[c].calls > 0
          /\ ~queue.cons[c].othersTaking
          /\ ~queue.cons[c].ok)
         => queue.cons[c].sizeAtCall = 0

\* C27: a Take with a context that is never cancelled does not stay blocked
\* while the queue holds an element: from a state where it is parked and
\* q.el is not empty, it returns, or another consumer takes the elements.
C27_TakeNotBlockedWhileNonEmpty ==
    \A c \in Consumers :
       (/\ queue.pc = "run"
        /\ queue.cons[c].pc = "parked"
        /\ queue.cons[c].ctx = "background"
        /\ ~queue.closed
        /\ Len(queue.el) > 0)
       ~> (queue.cons[c].pc # "parked" \/ Len(queue.el) = 0)

\* C30: elements are obtained in the order they were added: the producer
\* adds 1, 2, ... one call after the other, so the i-th element obtained by
\* any consumer is i.
C30_FifoOrder ==
    queue.pc = "run" =>
      \A i \in 1..Len(queue.taken) : queue.taken[i] = i

----------------------------------------------------------------------------
(* The condition combinator on its own: three conditions combined in the   *)
(* two groupings and in one variadic call, and the results evaluated by    *)
(* the store on a few items.                                               *)

\* conditions a caller hands to And
Conditions ==
    {AttributeNotExists(hashKeyAttr), AttributeNotExists(dataAttr),
     Equal(versionAttributeName, AvN(<<"1">>)), Equal(dataAttr, AvS(<<"x">>))}

\* items the store evaluates a condition on
ExprItems ==
    {<<>>,
     (hashKeyAttr :> AvS(<<"k">>)) @@ (versionAttributeName :> AvN(<<"1">>)),
     (hashKeyAttr :> AvS(<<"k">>)) @@ (versionAttributeName :> AvN(<<"1">>))
        @@ (dataAttr :> AvS(<<"x">>)),
     (hashKeyAttr :> AvS(<<"k">>)) @@ (versionAttributeName :> AvN(<<"2">>))
        @@ (dataAttr :> AvS(<<"x">>))}

InitExpr ==
    /\ versionKind = "int"
    /\ keyFromTags = TRUE
    /\ stored = <<>>
    /\ w = <<>>
    /\ tok = TokIdle
    /\ batch = BatchIdle
    /\ build = BuildIdle
    /\ call = CallIdle
    /\ queue = QueueIdle
    /\ wrap = WrapIdle
    /\ expr \in {[pc |-> "run", c1 |-> c1, c2 |-> c2, c3 |-> c3,
                  first |-> <<>>, chained |-> <<>>, grouped |-> <<>>, flat |-> <<>>] :
                     c1 \in Conditions \cup {NilCond}, c2 \in Conditions,
                     c3 \in Conditions}

ExprOthersUnchanged ==
    UNCHANGED <<mapperVars, tok, batch, build, call, queue, wrap>>

\* cond = And(c1, c2)
AndFirst ==
    /\ expr.pc = "run"
    /\ expr.first = <<>>
    /\ expr' = [expr EXCEPT !.first = <<And(expr.c1, expr.c2)>>]
    /\ ExprOthersUnchanged

\* cond = And(cond, c3)
AndChained ==
    /\ expr.pc = "run"
    /\ expr.first # <<>>
    /\ expr.chained = <<>>
    /\ expr' = [expr EXCEPT !.chained = <<And(expr.first[1], expr.c3)>>]
    /\ ExprOthersUnchanged

\* And(c1, c2.And(c3))
AndGrouped ==
    /\ expr.pc = "run"
    /\ expr.grouped = <<>>
    /\ expr' = [expr EXCEPT
          !.grouped = <<And(expr.c1, BuilderAnd(expr.c2, expr.c3, <<>>))>>]
    /\ ExprOthersUnchanged

\* And(c1, c2, c3)
AndVariadic ==
    /\ expr.pc = "run"
    /\ expr.flat = <<>>
    /\ expr' = [expr EXCEPT !.flat = <<AndOther(expr.c1, expr.c2, <<expr.c3>>)>>]
    /\ ExprOthersUnchanged

NextExpr == AndFirst \/ AndChained \/ AndGrouped \/ AndVariadic

SpecExpr == InitExpr /\ [][NextExpr]_vars

\* the store gives the two conditions the same answer on every item
Equivalent(a, b) == \A item \in ExprItems : EvalCond(a, item) = EvalCond(b, item)

\* C22: And returns the right condition when the accumulator is nil, never
\* returns nil, and combining C1 with C2 and then with C3 is equivalent to
\* combining C1 with (C2 AND C3), and to one call with all three.
C22_AndAssociative ==
    expr.pc = "run" =>
        /\ expr.first # <<>> =>
              /\ expr.first[1] # NilCond
              /\ expr.c1 = NilCond => expr.first[1] = expr.c2
              /\ \A item \in ExprItems :
                    EvalCond(expr.first[1], item) =
                       (EvalCond(expr.c1, item) /\ EvalCond(expr.c2, item))
        /\ expr.chained # <<>> => expr.chained[1] # NilCond
        /\ expr.grouped # <<>> => expr.grouped[1] # NilCond
        /\ expr.flat # <<>> => expr.flat[1] # NilCond
        /\ (expr.chained # <<>> /\ expr.grouped # <<>>) =>
              Equivalent(expr.chained[1], expr.grouped[1])
        /\ (expr.chained # <<>> /\ expr.flat # <<>>) =>
              Equivalent(expr.chained[1], expr.flat[1])

C22_Witness ==
    /\ expr.pc = "run"
    /\ expr.c1 = AttributeNotExists(dataAttr)
    /\ expr.c2 = Equal(versionAttributeName, AvN(<<"1">>))
    /\ expr.c3 = AttributeNotExists(hashKeyAttr)
    /\ expr.chained # <<>> /\ expr.grouped # <<>> /\ expr.flat # <<>>
    /\ expr.chained[1] # expr.grouped[1]
    /\ \E item \in ExprItems : EvalCond(CondAnd(expr.c1, expr.c2), item)

----------------------------------------------------------------------------
(* ddb.Wrapper: one call of Save or Update on a model.Item.  GetVersion,   *)
(* NextVersion and the timestamp methods are code of the item's type; the  *)
(* maps they return hold at most one entry.                                *)

\* mutil.First(m): the first entry met by a range over m
First(m) ==
    IF DOMAIN m = {} THEN [n |-> "", av |-> AvN(<<>>), ok |-> FALSE]
    ELSE LET k == CHOOSE k \in DOMAIN m : TRUE
         IN  [n |-> k, av |-> m[k], ok |-> TRUE]

\* the maps GetVersion and NextVersion of the items of the model return
VersionMaps == {<<>>} \cup {(versionAttributeName :> AvN(<<d>>)) : d \in {"1", "2"}}

InitWrap ==
    /\ versionKind = "int"
    /\ keyFromTags = TRUE
    /\ stored = <<>>
    /\ w = <<>>
    /\ tok = TokIdle
    /\ batch = BatchIdle
    /\ build = BuildIdle
    /\ call = CallIdle
    /\ queue = QueueIdle
    /\ expr = ExprIdle
    /\ wrap \in {[pc |-> "start", op |-> op, versioned |-> vd, GetVersion |-> gv,
                  NextVersion |-> nv, DisableOptimisticLocking |-> dl,
                  HasCreatedTimestamp |-> hc, HasModifiedTimestamp |-> hm,
                  Condition |-> c, now |-> now, isNew |-> FALSE,
                  input |-> NoInput, err |-> "none"] :
                     op \in {"save", "update"}, vd \in BOOLEAN, gv \in VersionMaps,
                     nv \in VersionMaps, dl \in BOOLEAN, hc \in BOOLEAN,
                     hm \in BOOLEAN,
                     c \in {NilCond, Equal(dataAttr, AvS(<<"x">>))}, now \in {5}}

WrapOthersUnchanged ==
    UNCHANGED <<mapperVars, tok, batch, build, call, queue, expr>>

WrapFailed(err) == [wrap EXCEPT !.pc = "failed", !.err = err]

\* whether the Versioned branch of the call is taken
Locking == ~wrap.DisableOptimisticLocking /\ wrap.versioned

\* the entries that the timestamp methods of the item return, in the order
\* the call asks for them
Timestamps(isNew) ==
    (IF wrap.HasCreatedTimestamp /\ isNew
     THEN <<SetValue(createdTimeAttr, AvN(FormatInt(wrap.now)))>> ELSE <<>>)
        \o (IF wrap.HasModifiedTimestamp
            THEN <<SetValue(modifiedTimeAttr, AvN(FormatInt(wrap.now)))>> ELSE <<>>)

\* Wrapper.Save: the name n of the condition is the one NextVersion returns
Save ==
    /\ wrap.pc = "start"
    /\ wrap.op = "save"
    /\ LET old == First(wrap.GetVersion)
           next == First(wrap.NextVersion)
           isNew == Locking /\ ~old.ok
           m == (hashKeyAttr :> AvS(<<"k">>)) @@ (dataAttr :> AvS(<<"x">>)) @@ wrap.GetVersion
           cond == IF ~Locking THEN wrap.Condition
                   ELSE IF isNew THEN And(wrap.Condition, AttributeNotExists(next.n))
                   ELSE And(wrap.Condition, Equal(next.n, old.av))
           versioned == IF Locking THEN <<SetValue(next.n, next.av)>> ELSE <<>>
       IN  wrap' =
             IF Locking /\ ~next.ok THEN WrapFailed("NextVersion returns empty map")
             ELSE IF ~CondBuilds(cond) THEN WrapFailed("build expressions error")
             ELSE [wrap EXCEPT
                     !.pc = "sent", !.isNew = isNew,
                     !.input = [kind |-> "put", TableName |-> "table",
                                Item |-> ApplyUpdate(m, versioned \o Timestamps(isNew)),
                                Condition |-> cond]]
    /\ WrapOthersUnchanged

\* Wrapper.Update: the name n of the condition is the one GetVersion returns
Update ==
    /\ wrap.pc = "start"
    /\ wrap.op = "update"
    /\ LET old == First(wrap.GetVersion)
           next == First(wrap.NextVersion)
           isNew == Locking /\ ~old.ok
           required == <<SetValue(dataAttr, AvS(<<"x">>))>>
           cond == IF ~Locking THEN wrap.Condition
                   ELSE IF ~old.ok THEN And(wrap.Condition, AttributeNotExists(old.n))
                   ELSE And(wrap.Condition, Equal(old.n, old.av))
           versioned == IF Locking THEN <<SetValue(next.n, next.av)>> ELSE <<>>
       IN  wrap' =
             IF Locking /\ ~next.ok THEN WrapFailed("NextVersion returns empty map")
             ELSE IF ~CondBuilds(cond) THEN WrapFailed("build expressions error")
             ELSE [wrap EXCEPT
                     !.pc = "sent", !.isNew = isNew,
                     !.input = [kind |-> "update", TableName |-> "table",
                                Key |-> (hashKeyAttr :> AvS(<<"k">>)),
                                Update |-> required \o versioned \o Timestamps(isNew),
                                Condition |-> cond]]
    /\ WrapOthersUnchanged

NextWrap == Save \/ Update

SpecWrap == InitWrap /\ [][NextWrap]_vars

\* C28: for a Versioned item whose GetVersion returns an empty map, Save and
\* Update each dispatch a write whose condition is the caller's condition
\* and attribute_not_exists on the version attribute of the item.
C28_NewItemWritesIfAbsent ==
    (/\ wrap.pc \in {"sent", "failed"}
     /\ wrap.versioned /\ ~wrap.DisableOptimisticLocking
     /\ wrap.GetVersion = <<>>
     /\ wrap.NextVersion # <<>>)
    => /\ wrap.pc = "sent"
       /\ wrap.input.Condition =
             And(wrap.Condition, AttributeNotExists(versionAttributeName))


====
